---- MODULE Spec2Model ----
(***************************************************************************)
(* A model of the go-irc client: Client.Run with its ping loop (PING       *)
(* ticker and PONG checker goroutines), its rate limiter goroutine, the    *)
(* read loop with the internal filters, and the error channel.             *)
(*                                                                         *)
(* Go strings are byte strings: they are modelled as sequences of          *)
(* one-character strings, so that formatting (fmt.Sprintf), concatenation  *)
(* and byte indexing are computed and not assumed.                         *)
(***************************************************************************)
EXTENDS Integers, Sequences, FiniteSets, TLC

(***************************************************************************)
(* Bounds of the model.                                                    *)
(***************************************************************************)
\* incoming messages read in one run
MaxMsgs == 2
\* ticks of the PING ticker in one run; the clock advances by at most one
\* second per tick, so it is also the largest Unix time reached
MaxPings == 1
\* the largest SendBurst tried
MaxBurst == 1
\* refill periods of the limiter counted in one run
MaxLimTicks == 4
\* calls of c.Write made by a goroutine outside Run
MaxUserWrites == 1

\* tasks writing to one connection, and lines each of them writes
MaxTasks == 2
MaxLines == 2
\* messages the client reads in one run of the capability handshake
MaxCapMsgs == 4
\* messages the server sends in one run of the read-loop study
MaxLoopMsgs == 3

(***************************************************************************)
(* Program constants.                                                      *)
(***************************************************************************)
\* a funnel with room for one error only
ErrChanCapOne == 2 - 1

\* the lines a server writes in the reader study
MaxReadLines == 3

\* the arguments of an event of the round-trip study
MaxArgs == 2

\* the bytes of an identity string
MaxIdLen == 3

\* the messages dispatched in the tracker study
MaxTrackMsgs == 4

\* ticks and reads of Run with a single ping goroutine
MaxVTicks == 3
MaxVReads == 3

\* errChan := make(chan error, 3)
ErrChanCap == 3

(***************************************************************************)
(* Byte strings.                                                           *)
(***************************************************************************)
Digits == <<"0", "1", "2", "3", "4", "5", "6", "7", "8", "9">>

\* fmt.Sprintf("%d", n) for n >= 0
RECURSIVE Itoa(_)
Itoa(n) == IF n < 10 THEN <<Digits[n + 1]>>
           ELSE Itoa(n \div 10) \o <<Digits[(n % 10) + 1]>>

\* the byte 0x01
SOH == "SOH"

c001 == <<"0", "0", "1">>
c433 == <<"4", "3", "3">>
c437 == <<"4", "3", "7">>
cPING == <<"P", "I", "N", "G">>
cPONG == <<"P", "O", "N", "G">>
cPRIVMSG == <<"P", "R", "I", "V", "M", "S", "G">>
cCTCP == <<"C", "T", "C", "P">>
cNICK == <<"N", "I", "C", "K">>
cNOTICE == <<"N", "O", "T", "I", "C", "E">>

\* the configured Nick, User, Name and the non-empty Pass of the runs explored
CfgNick == <<"n">>
CfgUser == <<"u">>
CfgName == <<"r">>
CfgPass == <<"p">>
\* the nick a server message announces
OtherNick == <<"m">>

\* fmt.Sprintf("PASS :%s", c.config.Pass)
PassLine(pass) == <<"P", "A", "S", "S", " ", ":">> \o pass

\* fmt.Sprintf("NICK :%s", nick)
NickLine(nick) == <<"N", "I", "C", "K", " ", ":">> \o nick

\* fmt.Sprintf("USER %s 0.0.0.0 0.0.0.0 :%s", c.config.User, c.config.Name)
UserLine(user, name) ==
    <<"U", "S", "E", "R", " ">> \o user
        \o <<" ", "0", ".", "0", ".", "0", ".", "0">>
        \o <<" ", "0", ".", "0", ".", "0", ".", "0">>
        \o <<" ", ":">> \o name

\* fmt.Sprintf("PING :%d", timestamp.Unix())
PingLine(ts) == <<"P", "I", "N", "G", " ", ":">> \o Itoa(ts)

(***************************************************************************)
(* Messages.                                                               *)
(***************************************************************************)
Msg(prefix, command, params) ==
    [prefix |-> prefix, command |-> command, params |-> params]

\* Trailing returns the last argument or an empty string if there are none
Trailing(m) == IF Len(m.params) < 1 THEN <<>> ELSE m.params[Len(m.params)]

\* strings.ContainsRune(s, ' ')
HasSpace(s) == \E i \in 1..Len(s) : s[i] = " "

RECURSIVE JoinSp(_)
\* " " + strings.Join(args, " ") for a non-empty args
JoinSp(args) == IF args = <<>> THEN <<>>
                ELSE <<" ">> \o Head(args) \o JoinSp(Tail(args))

\* String: the prefix, the command, the middle arguments, and the last
\* argument after " :" when it has a space or starts with ':' (trailing[0]
\* of a non-empty last argument)
MsgString(m) ==
    LET pre == IF m.prefix # <<>> THEN <<":">> \o m.prefix \o <<" ">> ELSE <<>>
        n == Len(m.params)
        last == m.params[n]
        asTrailing == HasSpace(last) \/ Head(last) = ":"
    IN  IF n = 0 THEN pre \o m.command
        ELSE pre \o m.command \o JoinSp(SubSeq(m.params, 1, n - 1))
                 \o (IF asTrailing THEN <<" ", ":">> ELSE <<" ">>) \o last

\* String: trailing[0] of an empty last argument is out of range and panics
StringPanics(m) == Len(m.params) > 0 /\ m.params[Len(m.params)] = <<>>

(***************************************************************************)
(* clientFilters: the pre-processing of incoming messages.                 *)
(***************************************************************************)
\* "001": c.currentNick = m.Params[0]; indexing an empty Params panics
Filter001Panics(m) == Len(m.params) = 0

Filter001Nick(m) == m.params[1]

\* a collision filter that leaves the nick as it is
FilterCollisionNickKept(nick) == nick

\* "433", "437": c.currentNick = c.currentNick + "_"
FilterCollisionNick(nick) == nick \o <<"_">>

\* "PING": reply := m.Copy(); reply.Command = "PONG"
PingReply(m) == [m EXCEPT !.command = cPONG]

\* a ticker that does not record the ping it is about to write
AppendPingNever(pings, ts) == pings

\* c.sentPings = append(c.sentPings, timestamp)
AppendPing(pings, ts) == Append(pings, ts)

\* a PONG filter that clears the oldest ping whatever the PONG carries
FilterPongAny(pings, m) == IF Len(pings) = 0 THEN pings ELSE Tail(pings)

\* "PONG": only the oldest outstanding ping is compared with the trailing
FilterPong(pings, m) ==
    IF Len(pings) = 0 THEN pings
    ELSE IF Itoa(pings[1]) = Trailing(m) THEN Tail(pings)
    ELSE pings

\* a PRIVMSG filter that looks at the first byte of the trailing only
FilterPrivmsgOpening(m) ==
    LET lastArg == Trailing(m)
    IN  IF Len(lastArg) > 0 /\ lastArg[1] = SOH
        THEN [m EXCEPT !.command = cCTCP,
                       !.params[Len(m.params)] =
                           SubSeq(lastArg, 2, Len(lastArg) - 1)]
        ELSE m

\* "PRIVMSG": a trailing framed by 0x01 bytes makes the message a CTCP
FilterPrivmsg(m) ==
    LET lastArg == Trailing(m)
        lastIdx == Len(lastArg) - 1
    IN  IF lastIdx > 0 /\ lastArg[1] = SOH /\ lastArg[lastIdx + 1] = SOH
        THEN [m EXCEPT !.command = cCTCP,
                       !.params[Len(m.params)] = SubSeq(lastArg, 2, lastIdx)]
        ELSE m

\* a NICK filter that takes the new nick from any source
FilterNickAnySource(nick, m) == IF Len(m.params) > 0 THEN m.params[1] ELSE nick

\* "NICK": a NICK of the client itself changes the current nick
FilterNick(nick, m) ==
    IF m.prefix = nick /\ Len(m.params) > 0 THEN m.params[1] ELSE nick

\* the filters that panic on m: 001 indexes Params[0]; PING serializes its
\* reply
FilterPanics(m) ==
    \/ m.command = c001 /\ Filter001Panics(m)
    \/ m.command = cPING /\ StringPanics(PingReply(m))

\* f, ok := clientFilters[m.Command]: the keys of the map
HasFilter(m) == m.command \in {c001, c433, c437, cPING, cPONG, cPRIVMSG, cNICK}

\* whether the filter of m writes a line (433, 437, PING)
FilterWrites(m) == m.command \in {c433, c437, cPING}

\* the messages a server sends in the runs explored
Incoming ==
    { Msg(<<>>, c001, <<OtherNick>>),
      Msg(<<>>, c001, <<>>),
      Msg(<<>>, c433, <<>>),
      Msg(<<>>, cPING, << <<"x">> >>),
      Msg(CfgNick, cNICK, <<OtherNick>>),
      Msg(<<"w">>, cPRIVMSG, << <<SOH, "V", SOH>> >>),
      Msg(<<"w">>, cPRIVMSG, << <<SOH, "V">> >>),
      Msg(<<>>, cPONG, << <<"x">> >>),
      Msg(<<"w">>, cNOTICE, << <<"x">> >>) }
    \cup { Msg(<<>>, cPONG, <<Itoa(t)>>) : t \in 0..(MaxPings - 1) }

\* a server answers the PINGs it was sent: a PONG carries the token of a ping
\* only after the PING line with this token reached the transport
ServerSends(m, sent) ==
    \A t \in 0..(MaxPings - 1) :
        m = Msg(<<>>, cPONG, <<Itoa(t)>>)
            => \E i \in 1..Len(sent) : sent[i] = PingLine(t)

(***************************************************************************)
(* The state of one run.                                                   *)
(***************************************************************************)
VARIABLES
    cfg,          \* ClientConfig: pass, pingOn (PingFrequency > 0),
                  \* limitOn (SendLimit # 0), burst (SendBurst), handler (# nil)
    pcMain,       \* the position of Run
    pcT,          \* the position of the PING ticker goroutine
    pcC,          \* the position of the PONG checker goroutine
    pcL,          \* the position of the limiter goroutine
    currentNick,  \* c.currentNick
    sentPings,    \* c.sentPings, Unix seconds
    tickTs,       \* the ticker's timestamp
    tickErr,      \* the ticker's err
    pingSent,     \* the checker's pingSent
    limiter,      \* c.limiter: "nil" or "open"
    tokens,       \* the tokens in c.limiter
    errChan,      \* errChan
    exiting,      \* exiting is closed
    closeCalled,  \* c.rwc.Close() was called
    written,      \* the lines the transport accepted, without their CRLF
    clock,        \* time.Now().Unix()
    nTicks,       \* ticks of the PING ticker so far
    nRead,        \* messages read so far
    cur,          \* m, the message of this iteration of the read loop
    curIn,        \* m as ReadMessage returned it
    filterRuns,   \* how often a filter ran on m
    readErr,      \* err of ReadMessage
    runErr,       \* err, the value Run returns
    handled,      \* the arrival numbers of the messages passed to the handler
    errLog,       \* every error sent to errChan, in order
    nLimTicks,    \* refill periods of the limiter counted so far
    pcU,          \* the position of a goroutine outside Run that calls c.Write
    uWrites,      \* the calls of c.Write this goroutine has completed
    api,          \* the Write method the tasks of the transport study call
    wire,         \* the bytes the transport has received, in order
    wq,           \* per task: the transport writes left in its call of Write
    wsub,         \* per task: the calls of Write it has made
    capPc,        \* the position of Run in the capability handshake
    caps,         \* per capability: requested, required, available, enabled
    remaining,    \* the remaining-responses counter
    capOut,       \* the lines the client has written, in order
    capErr,       \* the first error surfaced to the error funnel
    capRet,       \* the error Run returned
    capSeen,      \* the names listed in the LS, ACK and NAK replies processed
    nCapMsgs,     \* messages read so far
    capLate,      \* messages read after the negotiation had ended
    history,      \* the messages the read loop has read, as they arrived
    rlines,       \* the lines the server has written to the stream, in order
    rbuf,         \* the bytes of the stream that no ReadMessage has consumed
    rret,         \* what the calls of ReadMessage returned, in order
    evPc,         \* round trip of an event: "off", "made", "serialized",
                  \* "parsed" or "panicked"
    evIn,         \* the event to serialize
    evStr,        \* e.String()
    evOut,        \* ParseEvent(e.String())
    idPc,         \* parse of an identity: "off", "given" or "parsed"
    idIn,         \* the identity string
    idOut,        \* ParseIdentity(idIn)
    tPc,          \* the step the dispatch of a message is at: "off", "read",
                  \* "filter", "isupport", "tracker" or "handler"
    tCur,         \* the message being dispatched
    tCount,       \* messages dispatched so far
    tAfter001,    \* "no": no 001 was read; "first": the first 001 is the
                  \* last message read; "later": a message was read after it
    fNick,        \* c.currentNick as the client's filters leave it
    isPrefix,     \* the ISUPPORT tracker's value of PREFIX
    tChannels,    \* t.channels: per tracked channel its Topic and Users
    tNick,        \* t.currentNick
    tErr,         \* what the last call of Tracker.Handle returned
    vPing,        \* c.config.PingFrequency > 0
    vPc,          \* the position of Run
    vG,           \* the position of the ping goroutine
    vExiting,     \* exiting is closed
    vWg,          \* the counter of wg
    vErr,         \* err of ReadMessage
    vTicks,       \* ticks of t.C so far
    vReads        \* messages read so far

\* the state of Run and of the goroutines it starts
runVars == <<cfg, pcMain, pcT, pcC, pcL, currentNick, sentPings, tickTs,
             tickErr, pingSent, limiter, tokens, errChan, exiting, closeCalled,
             written, clock, nTicks, nRead, cur, curIn, filterRuns, readErr,
             runErr, handled, errLog>>

\* the state kept for the studies of the limiter, of writers outside Run, of
\* the bytes on the transport and of the capability negotiation
limVars == <<nLimTicks, pcU, uWrites>>

wireVars == <<api, wire, wq, wsub>>

capVars == <<capPc, caps, remaining, capOut, capErr, capRet, capSeen, nCapMsgs,
             capLate>>

loopVars == <<history>>

\* the variables of the parser and reader study
parseVars ==
    <<rlines, rbuf, rret, evPc, evIn, evStr, evOut, idPc, idIn, idOut>>

\* the variables of the membership tracker study
trackVars ==
    <<tPc, tCur, tCount, tAfter001, fNick, isPrefix, tChannels, tNick, tErr>>

\* the variables of the study of Run with a single ping goroutine
variantVars == <<vPing, vPc, vG, vExiting, vWg, vErr, vTicks, vReads>>

lateVars == <<trackVars, variantVars>>

studyVars == <<wireVars, capVars, loopVars, parseVars, lateVars>>

auxVars == <<limVars, studyVars>>

vars == <<runVars, auxVars>>

NoMsg == Msg(<<>>, <<>>, <<>>)

Configs ==
    [pass : {<<>>, CfgPass}, pingOn : BOOLEAN, limitOn : BOOLEAN,
     burst : 0..MaxBurst, handler : BOOLEAN]

\* NewClient, before Run is called
RunInit ==
    /\ cfg \in {c \in Configs : ~c.limitOn => c.burst = 0}
    /\ pcMain = "start"
    /\ pcT = "off"
    /\ pcC = "off"
    /\ pcL = "off"
    /\ currentNick = <<>>
    /\ sentPings = <<>>
    /\ tickTs = 0
    /\ tickErr = "none"
    /\ pingSent = FALSE
    /\ limiter = "nil"
    /\ tokens = 0
    /\ errChan = <<>>
    /\ exiting = FALSE
    /\ closeCalled = FALSE
    /\ written = <<>>
    /\ clock = 0
    /\ nTicks = 0
    /\ nRead = 0
    /\ cur = NoMsg
    /\ curIn = NoMsg
    /\ filterRuns = 0
    /\ readErr = "none"
    /\ runErr = "none"
    /\ handled = <<>>
    /\ errLog = <<>>

\* the tasks that call Write on one connection in the transport study
Tasks == 1..MaxTasks

\* no task of the transport study exists
WireIdle ==
    /\ api = "none"
    /\ wire = <<>>
    /\ wq = [t \in Tasks |-> <<>>]
    /\ wsub = [t \in Tasks |-> 0]

\* the capability names: two the application may request and one it never
\* requests
Requestable == {"multi-prefix", "sasl"}
CapNames == Requestable \cup {"random-thing"}

NoErr == [kind |-> "none", cap |-> ""]

\* a client on which no capability was requested and Run was not called
CapNew ==
    /\ caps = [n \in CapNames |-> [requested |-> FALSE, required |-> FALSE,
                                   available |-> FALSE, enabled |-> FALSE]]
    /\ remaining = 0
    /\ capOut = <<>>
    /\ capErr = NoErr
    /\ capRet = NoErr
    /\ capSeen = [ls |-> {}, ack |-> {}, nak |-> {}]
    /\ nCapMsgs = 0
    /\ capLate = 0

CapIdle == capPc = "off" /\ CapNew

\* type Identity struct { Nick, User, Host string }
Identity(nick, user, host) == [nick |-> nick, user |-> user, host |-> host]

\* type Event struct { *Identity; Command string; Args []string }
Event(id, command, args) == [identity |-> id, command |-> command, args |-> args]

\* a nil *Event
NilEvent == [nil |-> TRUE]

\* no reader, no round trip and no identity parse is under way
ParseIdle ==
    /\ rlines = <<>>
    /\ rbuf = <<>>
    /\ rret = <<>>
    /\ evPc = "off"
    /\ evIn = NilEvent
    /\ evStr = <<>>
    /\ evOut = NilEvent
    /\ idPc = "off"
    /\ idIn = <<>>
    /\ idOut = Identity(<<>>, <<>>, <<>>)

\* NewTracker: no channel, no nick; the dispatch is not running
TrackIdle ==
    /\ tPc = "off"
    /\ tCur = NoMsg
    /\ tCount = 0
    /\ tAfter001 = "no"
    /\ fNick = <<>>
    /\ isPrefix = <<>>
    /\ tChannels = {}
    /\ tNick = <<>>
    /\ tErr = "nil"

\* Run with a single ping goroutine is not called
VariantIdle ==
    /\ vPing = FALSE
    /\ vPc = "off"
    /\ vG = "off"
    /\ vExiting = FALSE
    /\ vWg = 0
    /\ vErr = "nil"
    /\ vTicks = 0
    /\ vReads = 0

LateIdle == TrackIdle /\ VariantIdle

StudyIdle ==
    WireIdle /\ CapIdle /\ history = <<>> /\ ParseIdle /\ LateIdle

\* nothing but Run and its goroutines is running
AuxIdle ==
    /\ nLimTicks = 0
    /\ pcU = "off"
    /\ uWrites = 0
    /\ StudyIdle

Init == RunInit /\ AuxIdle

(***************************************************************************)
(* Writing a line: Writef/WriteMessage -> Writer.Write -> writeCallback.    *)
(* A write to the transport may block; it ends with success, only while   *)
(* the transport is open, or with an error.                                *)
(***************************************************************************)
WriteOutcomes == {"ok", "err"}

\* if c.limiter != nil { <-c.limiter }
LimiterGate == limiter = "nil" \/ tokens > 0

\* a gate that lets the writer pass without taking the token
TokensAfterGateKept == tokens

TokensAfterGate == IF limiter = "nil" THEN tokens ELSE tokens - 1

\* the error a failed write returns
WriteError == IF closeCalled THEN "closed" ELSE "write error"

\* writeCallback: wait for a token if there is a limiter, then write line+CRLF
WriteLine(line, r) ==
    /\ LimiterGate
    /\ r = "ok" => ~closeCalled
    /\ tokens' = TokensAfterGate
    /\ written' = IF r = "ok" THEN Append(written, line) ELSE written

\* a panic of the read loop ends the process: no goroutine runs on
Alive == pcMain # "panicked"

(***************************************************************************)
(* Client.Run                                                              *)
(***************************************************************************)
\* maybeStartLimiter, make(exiting, errChan), startPingLoop, currentNick
RunStart ==
    /\ pcMain = "start"
    /\ limiter' = IF cfg.limitOn THEN "open" ELSE "nil"
    /\ pcL' = IF cfg.limitOn THEN "run" ELSE "off"
    /\ pcT' = IF cfg.pingOn THEN "select" ELSE "off"
    /\ pcC' = IF cfg.pingOn THEN "top" ELSE "off"
    /\ currentNick' = CfgNick
    /\ pcMain' = "pass"
    /\ UNCHANGED auxVars
    /\ UNCHANGED <<cfg, sentPings, tickTs, tickErr, pingSent, tokens, errChan,
                   exiting, closeCalled, written, clock, nTicks,
                   nRead, cur, curIn, filterRuns, readErr, runErr, handled,
                   errLog>>

\* if c.config.Pass != "" { c.Writef("PASS :%s", c.config.Pass) }
WritePass(r) ==
    /\ pcMain = "pass"
    /\ IF cfg.pass # <<>>
       THEN WriteLine(PassLine(cfg.pass), r)
       ELSE r = "ok" /\ UNCHANGED <<tokens, written>>
    /\ pcMain' = "nick"
    /\ UNCHANGED auxVars
    /\ UNCHANGED <<cfg, pcT, pcC, pcL, currentNick, sentPings, tickTs, tickErr,
                   pingSent, limiter, errChan, exiting, closeCalled, clock,
                   nTicks, nRead, cur, curIn, filterRuns, readErr, runErr,
                   handled, errLog>>

\* c.Writef("NICK :%s", c.config.Nick)
WriteNick(r) ==
    /\ pcMain = "nick"
    /\ WriteLine(NickLine(CfgNick), r)
    /\ pcMain' = "user"
    /\ UNCHANGED auxVars
    /\ UNCHANGED <<cfg, pcT, pcC, pcL, currentNick, sentPings, tickTs, tickErr,
                   pingSent, limiter, errChan, exiting, closeCalled, clock,
                   nTicks, nRead, cur, curIn, filterRuns, readErr, runErr,
                   handled, errLog>>

\* c.Writef("USER %s 0.0.0.0 0.0.0.0 :%s", c.config.User, c.config.Name)
WriteUser(r) ==
    /\ pcMain = "user"
    /\ WriteLine(UserLine(CfgUser, CfgName), r)
    /\ pcMain' = "read"
    /\ UNCHANGED auxVars
    /\ UNCHANGED <<cfg, pcT, pcC, pcL, currentNick, sentPings, tickTs, tickErr,
                   pingSent, limiter, errChan, exiting, closeCalled, clock,
                   nTicks, nRead, cur, curIn, filterRuns, readErr, runErr,
                   handled, errLog>>

\* a read loop that passes the message to the handler without filtering it
AfterReadSkipsFilter == "handle"

\* the read loop: where Run goes after ReadMessage returned a message, after
\* the filter, and after the handler
AfterRead == "filter"

AfterFilter == "handle"

AfterHandle == "read"

\* m, err := c.ReadMessage() with err == nil, for a server that sends at
\* most max messages, all of msgs
ReadFrom(m, msgs, max) ==
    /\ pcMain = "read"
    /\ nRead < max
    /\ m \in msgs
    /\ ServerSends(m, written)
    /\ nRead' = nRead + 1
    /\ cur' = m
    /\ curIn' = m
    /\ filterRuns' = 0
    /\ pcMain' = AfterRead
    /\ UNCHANGED <<cfg, pcT, pcC, pcL, currentNick, sentPings, tickTs, tickErr,
                   pingSent, limiter, tokens, errChan, exiting, closeCalled,
                   written, clock, nTicks, readErr, runErr, handled,
                   errLog>>

ReadMsg(m) == ReadFrom(m, Incoming, MaxMsgs) /\ UNCHANGED auxVars

\* m, err := c.ReadMessage() with err != nil: the peer ended the stream (EOF),
\* or the transport was closed by c.rwc.Close()
ReadErr(e) ==
    /\ pcMain = "read"
    /\ \/ e = "EOF" /\ ~closeCalled
       \/ e = "closed" /\ closeCalled
    /\ readErr' = e
    /\ pcMain' = "senderr"
    /\ UNCHANGED auxVars
    /\ UNCHANGED <<cfg, pcT, pcC, pcL, currentNick, sentPings, tickTs, tickErr,
                   pingSent, limiter, tokens, errChan, exiting, closeCalled,
                   written, clock, nTicks, nRead, cur, curIn,
                   filterRuns, runErr, handled, errLog>>

\* if f, ok := clientFilters[m.Command]; ok { f(c, m) }
Filter(r) ==
    /\ pcMain = "filter"
    /\ LET m == cur
           nick2 == CASE m.command = c001 -> Filter001Nick(m)
                      [] m.command \in {c433, c437} ->
                             FilterCollisionNick(currentNick)
                      [] m.command = cNICK -> FilterNick(currentNick, m)
                      [] OTHER -> currentNick
           line == IF m.command = cPING THEN MsgString(PingReply(m))
                   ELSE NickLine(nick2)
       IN  IF FilterPanics(m)
           THEN /\ r = "ok"
                /\ pcMain' = "panicked"
                /\ UNCHANGED <<currentNick, cur, sentPings, tokens, written,
                               filterRuns>>
           ELSE /\ currentNick' = nick2
                /\ cur' = IF m.command = cPRIVMSG THEN FilterPrivmsg(m) ELSE m
                /\ sentPings' = IF m.command = cPONG /\ cfg.pingOn
                                THEN FilterPong(sentPings, m) ELSE sentPings
                /\ IF FilterWrites(m)
                   THEN WriteLine(line, r)
                   ELSE r = "ok" /\ UNCHANGED <<tokens, written>>
                /\ filterRuns' = IF HasFilter(m) THEN filterRuns + 1
                                  ELSE filterRuns
                /\ pcMain' = AfterFilter
    /\ UNCHANGED auxVars
    /\ UNCHANGED <<cfg, pcT, pcC, pcL, tickTs, tickErr, pingSent, limiter,
                   errChan, exiting, closeCalled, clock, nTicks, nRead, curIn,
                   readErr, runErr, handled, errLog>>

\* if c.config.Handler != nil { c.config.Handler.Handle(c, m) }; m ends with
\* the iteration
Handle ==
    /\ pcMain = "handle"
    /\ handled' = IF cfg.handler THEN Append(handled, nRead) ELSE handled
    /\ pcMain' = AfterHandle
    /\ cur' = NoMsg
    /\ curIn' = NoMsg
    /\ filterRuns' = 0
    /\ UNCHANGED auxVars
    /\ UNCHANGED <<cfg, pcT, pcC, pcL, currentNick, sentPings, tickTs, tickErr,
                   pingSent, limiter, tokens, errChan, exiting, closeCalled,
                   written, clock, nTicks, nRead, readErr, runErr,
                   errLog>>

\* errChan <- err: a send on a buffered channel blocks while the buffer is full
CanSendErr == Len(errChan) < ErrChanCap

\* a receive that takes the newest error of the funnel
RecvErrLast(ch) == ch[Len(ch)]

\* err := <-errChan
RecvErrValue(ch) == Head(ch)

\* errChan <- err; break
MainSendErr ==
    /\ pcMain = "senderr"
    /\ CanSendErr
    /\ errChan' = Append(errChan, readErr)
    /\ errLog' = Append(errLog, readErr)
    /\ readErr' = "none"
    /\ pcMain' = "recverr"
    /\ UNCHANGED auxVars
    /\ UNCHANGED <<cfg, pcT, pcC, pcL, currentNick, sentPings, tickTs, tickErr,
                   pingSent, limiter, tokens, exiting, closeCalled, written,
                   clock, nTicks, nRead, cur, curIn, filterRuns,
                   runErr, handled>>

\* err := <-errChan
MainRecvErr ==
    /\ pcMain = "recverr"
    /\ errChan # <<>>
    /\ runErr' = RecvErrValue(errChan)
    /\ errChan' = Tail(errChan)
    /\ pcMain' = "closeexiting"
    /\ UNCHANGED auxVars
    /\ UNCHANGED <<cfg, pcT, pcC, pcL, currentNick, sentPings, tickTs, tickErr,
                   pingSent, limiter, tokens, exiting, closeCalled, written,
                   clock, nTicks, nRead, cur, curIn, filterRuns,
                   readErr, handled, errLog>>

\* close(exiting)
CloseExiting ==
    /\ pcMain = "closeexiting"
    /\ exiting' = TRUE
    /\ pcMain' = "wait"
    /\ UNCHANGED auxVars
    /\ UNCHANGED <<cfg, pcT, pcC, pcL, currentNick, sentPings, tickTs, tickErr,
                   pingSent, limiter, tokens, errChan, closeCalled, written,
                   clock, nTicks, nRead, cur, curIn, filterRuns,
                   readErr, runErr, handled, errLog>>

\* wg.Wait(): both goroutines of the ping loop have called wg.Done()
WgWait ==
    /\ pcMain = "wait"
    /\ pcT \in {"off", "done"}
    /\ pcC \in {"off", "done"}
    /\ pcMain' = "stoplimiter"
    /\ UNCHANGED auxVars
    /\ UNCHANGED <<cfg, pcT, pcC, pcL, currentNick, sentPings, tickTs, tickErr,
                   pingSent, limiter, tokens, errChan, exiting, closeCalled,
                   written, clock, nTicks, nRead, cur, curIn,
                   filterRuns, readErr, runErr, handled, errLog>>

\* defer c.stopLimiter(): if c.limiter == nil { return }; c.tickDone <- struct{}{}
StopLimiter ==
    /\ pcMain = "stoplimiter"
    /\ IF limiter = "nil"
       THEN pcMain' = "done" /\ pcL' = pcL
       ELSE pcL = "run" /\ pcL' = "closing" /\ pcMain' = "stopwait"
    /\ UNCHANGED auxVars
    /\ UNCHANGED <<cfg, pcT, pcC, currentNick, sentPings, tickTs, tickErr,
                   pingSent, limiter, tokens, errChan, exiting, closeCalled,
                   written, clock, nTicks, nRead, cur, curIn,
                   filterRuns, readErr, runErr, handled, errLog>>

\* <-c.tickDone in stopLimiter meets c.tickDone <- struct{}{} of the goroutine
StopLimiterAck ==
    /\ pcMain = "stopwait"
    /\ pcL = "ack"
    /\ pcMain' = "done"
    /\ pcL' = "done"
    /\ UNCHANGED auxVars
    /\ UNCHANGED <<cfg, pcT, pcC, currentNick, sentPings, tickTs, tickErr,
                   pingSent, limiter, tokens, errChan, exiting, closeCalled,
                   written, clock, nTicks, nRead, cur, curIn,
                   filterRuns, readErr, runErr, handled, errLog>>

(***************************************************************************)
(* startPingLoop: the PING ticker goroutine                                *)
(***************************************************************************)
\* case <-t.C: timestamp := time.Now(); c.sentPings = append(...), under the
\* lock. d is the number of seconds since the previous tick read the clock.
TickerTick(d) ==
    /\ Alive
    /\ pcT = "select"
    /\ nTicks < MaxPings
    /\ d \in (IF nTicks = 0 THEN {0} ELSE 0..1)
    /\ clock' = clock + d
    /\ tickTs' = clock + d
    /\ sentPings' = AppendPing(sentPings, clock + d)
    /\ nTicks' = nTicks + 1
    /\ pcT' = "write"
    /\ UNCHANGED auxVars
    /\ UNCHANGED <<cfg, pcMain, pcC, pcL, currentNick, tickErr, pingSent,
                   limiter, tokens, errChan, exiting, closeCalled, written,
                   nRead, cur, curIn, filterRuns, readErr, runErr,
                   handled, errLog>>

\* err := c.Writef("PING :%d", timestamp.Unix())
TickerWrite(r) ==
    /\ Alive
    /\ pcT = "write"
    /\ WriteLine(PingLine(tickTs), r)
    /\ tickErr' = IF r = "ok" THEN tickErr ELSE WriteError
    /\ tickTs' = 0
    /\ pcT' = IF r = "ok" THEN "select" ELSE "senderr"
    /\ UNCHANGED auxVars
    /\ UNCHANGED <<cfg, pcMain, pcC, pcL, currentNick, sentPings,
                   pingSent, limiter, errChan, exiting, closeCalled, clock,
                   nTicks, nRead, cur, curIn, filterRuns, readErr, runErr,
                   handled, errLog>>

\* errChan <- err
TickerSendErr ==
    /\ Alive
    /\ pcT = "senderr"
    /\ CanSendErr
    /\ errChan' = Append(errChan, tickErr)
    /\ errLog' = Append(errLog, tickErr)
    /\ tickErr' = "none"
    /\ pcT' = "close"
    /\ UNCHANGED auxVars
    /\ UNCHANGED <<cfg, pcMain, pcC, pcL, currentNick, sentPings, tickTs,
                   pingSent, limiter, tokens, exiting, closeCalled,
                   written, clock, nTicks, nRead, cur, curIn,
                   filterRuns, readErr, runErr, handled>>

\* c.rwc.Close(); return
TickerClose ==
    /\ Alive
    /\ pcT = "close"
    /\ closeCalled' = TRUE
    /\ pcT' = "done"
    /\ UNCHANGED auxVars
    /\ UNCHANGED <<cfg, pcMain, pcC, pcL, currentNick, sentPings, tickTs,
                   tickErr, pingSent, limiter, tokens, errChan, exiting,
                   written, clock, nTicks, nRead, cur, curIn,
                   filterRuns, readErr, runErr, handled, errLog>>

\* case <-exiting: return
TickerExit ==
    /\ Alive
    /\ pcT = "select"
    /\ exiting
    /\ pcT' = "done"
    /\ UNCHANGED auxVars
    /\ UNCHANGED <<cfg, pcMain, pcC, pcL, currentNick, sentPings, tickTs,
                   tickErr, pingSent, limiter, tokens, errChan, exiting,
                   closeCalled, written, clock, nTicks, nRead, cur,
                   curIn, filterRuns, readErr, runErr, handled, errLog>>

(***************************************************************************)
(* startPingLoop: the PONG checker goroutine                               *)
(***************************************************************************)
\* pingSent = len(c.sentPings) > 0, under the lock; the timer is started
CheckerTop ==
    /\ Alive
    /\ pcC = "top"
    /\ pingSent' = (Len(sentPings) > 0)
    /\ pcC' = "select"
    /\ UNCHANGED auxVars
    /\ UNCHANGED <<cfg, pcMain, pcT, pcL, currentNick, sentPings, tickTs,
                   tickErr, limiter, tokens, errChan, exiting, closeCalled,
                   written, clock, nTicks, nRead, cur, curIn,
                   filterRuns, readErr, runErr, handled, errLog>>

\* where the checker goes when its timer fires
AfterTimer(sent) == IF sent THEN "senderr" ELSE "top"

\* case <-timer.C: if pingSent { ... }
CheckerTimer ==
    /\ Alive
    /\ pcC = "select"
    /\ pcC' = AfterTimer(pingSent)
    /\ pingSent' = FALSE
    /\ UNCHANGED auxVars
    /\ UNCHANGED <<cfg, pcMain, pcT, pcL, currentNick, sentPings, tickTs,
                   tickErr, limiter, tokens, errChan, exiting,
                   closeCalled, written, clock, nTicks, nRead, cur,
                   curIn, filterRuns, readErr, runErr, handled, errLog>>

\* errors.New("PING timeout")
PingTimeout == "PING timeout"

\* errChan <- errors.New("PING timeout")
CheckerSendErr ==
    /\ Alive
    /\ pcC = "senderr"
    /\ CanSendErr
    /\ errChan' = Append(errChan, PingTimeout)
    /\ errLog' = Append(errLog, PingTimeout)
    /\ pcC' = "close"
    /\ UNCHANGED auxVars
    /\ UNCHANGED <<cfg, pcMain, pcT, pcL, currentNick, sentPings, tickTs,
                   tickErr, pingSent, limiter, tokens, exiting, closeCalled,
                   written, clock, nTicks, nRead, cur, curIn,
                   filterRuns, readErr, runErr, handled>>

\* c.rwc.Close(); return
CheckerClose ==
    /\ Alive
    /\ pcC = "close"
    /\ closeCalled' = TRUE
    /\ pcC' = "done"
    /\ UNCHANGED auxVars
    /\ UNCHANGED <<cfg, pcMain, pcT, pcL, currentNick, sentPings, tickTs,
                   tickErr, pingSent, limiter, tokens, errChan, exiting,
                   written, clock, nTicks, nRead, cur, curIn,
                   filterRuns, readErr, runErr, handled, errLog>>

\* case <-exiting: return
CheckerExit ==
    /\ Alive
    /\ pcC = "select"
    /\ exiting
    /\ pcC' = "done"
    /\ pingSent' = FALSE
    /\ UNCHANGED auxVars
    /\ UNCHANGED <<cfg, pcMain, pcT, pcL, currentNick, sentPings, tickTs,
                   tickErr, limiter, tokens, errChan, exiting,
                   closeCalled, written, clock, nTicks, nRead, cur,
                   curIn, filterRuns, readErr, runErr, handled, errLog>>

(***************************************************************************)
(* maybeStartLimiter: the limiter goroutine                                *)
(***************************************************************************)
\* a goroutine is blocked in <-c.limiter
WriterWaiting ==
    /\ limiter = "open"
    /\ tokens = 0
    /\ \/ pcMain = "pass" /\ cfg.pass # <<>>
       \/ pcMain \in {"nick", "user"}
       \/ pcMain = "filter" /\ FilterWrites(cur)
       \/ pcT = "write" /\ Alive
       \/ pcU = "wait" /\ Alive

\* select { case c.limiter <- struct{}{}: default: } on a channel of capacity
\* burst: with capacity 0 the send succeeds only if a receiver is waiting
TokensAfterTick(burst, have, waiting) ==
    IF burst > 0
    THEN (IF have < burst THEN have + 1 ELSE have)
    ELSE (IF waiting THEN 1 ELSE have)

\* case <-c.limitTick.C: select { case c.limiter <- struct{}{}: default: }
LimiterRefill ==
    /\ Alive
    /\ pcL = "run"
    /\ tokens' = TokensAfterTick(cfg.burst, tokens, WriterWaiting)
    /\ UNCHANGED <<cfg, pcMain, pcT, pcC, pcL, currentNick, sentPings, tickTs,
                   tickErr, pingSent, limiter, errChan, exiting, closeCalled,
                   written, clock, nTicks, nRead, cur, curIn,
                   filterRuns, readErr, runErr, handled, errLog>>

\* a refill period of the limiter, not counted
LimiterTick == LimiterRefill /\ UNCHANGED auxVars

\* c.limitTick.Stop(); close(c.limiter); c.limiter = nil
LimiterClose ==
    /\ Alive
    /\ pcL = "closing"
    /\ limiter' = "nil"
    /\ tokens' = 0
    /\ pcL' = "ack"
    /\ UNCHANGED auxVars
    /\ UNCHANGED <<cfg, pcMain, pcT, pcC, currentNick, sentPings, tickTs,
                   tickErr, pingSent, errChan, exiting, closeCalled, written,
                   clock, nTicks, nRead, cur, curIn, filterRuns,
                   readErr, runErr, handled, errLog>>

(***************************************************************************)
(* The specification.                                                      *)
(***************************************************************************)
MainNext ==
    \/ RunStart
    \/ \E r \in WriteOutcomes : WritePass(r)
    \/ \E r \in WriteOutcomes : WriteNick(r)
    \/ \E r \in WriteOutcomes : WriteUser(r)
    \/ \E m \in Incoming : ReadMsg(m)
    \/ \E e \in {"EOF", "closed"} : ReadErr(e)
    \/ \E r \in WriteOutcomes : Filter(r)
    \/ Handle
    \/ MainSendErr
    \/ MainRecvErr
    \/ CloseExiting
    \/ WgWait
    \/ StopLimiter
    \/ StopLimiterAck

PingNext ==
    \/ \E d \in 0..1 : TickerTick(d)
    \/ \E r \in WriteOutcomes : TickerWrite(r)
    \/ TickerSendErr
    \/ TickerClose
    \/ TickerExit
    \/ CheckerTop
    \/ CheckerTimer
    \/ CheckerSendErr
    \/ CheckerClose
    \/ CheckerExit

RunNext == MainNext \/ PingNext \/ LimiterClose

Next == RunNext \/ LimiterTick

Spec == Init /\ [][Next]_vars

(***************************************************************************)
(* Scheduling.  The Go scheduler runs every goroutine that can take a     *)
(* step, a timer fires, and a select whose <-exiting case is ready takes  *)
(* it sooner or later.  Nothing is assumed of the peer: a message or EOF   *)
(* may never arrive, and a write to an open transport may never return.   *)
(***************************************************************************)
\* the steps of Run that do not wait for the peer
MainStep ==
    \/ RunStart
    \/ cfg.pass = <<>> /\ WritePass("ok")
    \/ closeCalled /\ \E r \in WriteOutcomes :
                          WritePass(r) \/ WriteNick(r) \/ WriteUser(r)
    \/ ReadErr("closed")
    \/ (pcMain = "filter" /\ (~FilterWrites(cur) \/ closeCalled))
           /\ \E r \in WriteOutcomes : Filter(r)
    \/ Handle
    \/ MainSendErr
    \/ MainRecvErr
    \/ CloseExiting
    \/ WgWait
    \/ StopLimiter
    \/ StopLimiterAck

\* the steps of the PING ticker that do not wait for the peer
TickerStep ==
    \/ \E d \in 0..1 : TickerTick(d)
    \/ closeCalled /\ \E r \in WriteOutcomes : TickerWrite(r)
    \/ TickerSendErr
    \/ TickerClose

CheckerStep == CheckerTop \/ CheckerTimer \/ CheckerSendErr \/ CheckerClose

LimiterStep == LimiterTick \/ LimiterClose

Fairness ==
    /\ WF_vars(MainStep)
    /\ WF_vars(TickerStep)
    /\ WF_vars(CheckerStep)
    /\ WF_vars(LimiterStep)
    /\ SF_vars(TickerExit)
    /\ SF_vars(CheckerExit)

\* the runs with a password and a handler
FairInit == Init /\ cfg.pass = CfgPass /\ cfg.handler

FairSpec == FairInit /\ [][Next]_vars /\ Fairness

(***************************************************************************)
(* Registration.                                                           *)
(***************************************************************************)
\* the lines of w that are not a PING of the ping loop
RECURSIVE NotPing(_)
NotPing(w) ==
    IF w = <<>> THEN <<>>
    ELSE IF Len(Head(w)) >= 4 /\ SubSeq(Head(w), 1, 4) = cPING
         THEN NotPing(Tail(w))
         ELSE <<Head(w)>> \o NotPing(Tail(w))

\* "USER <user> 0 * :<name>"
UserLineRFC2812(user, name) ==
    <<"U", "S", "E", "R", " ">> \o user \o <<" ", "0", " ", "*", " ", ":">>
        \o name

RegistrationLines(userLine) ==
    (IF cfg.pass # <<>> THEN <<PassLine(cfg.pass)>> ELSE <<>>)
        \o <<NickLine(CfgNick), userLine>>

\* Run is about to read its first message and every write so far succeeded
AtFirstRead ==
    /\ pcMain = "read"
    /\ nRead = 0
    /\ Len(NotPing(written)) = Len(RegistrationLines(<<>>))

\* C1: when Run starts reading, having written its registration lines, the
\* lines it wrote are PASS :<pass> (only for a non-empty password),
\* NICK :<nick> and USER <user> 0 * :<name>, in this order.
C1_Registration ==
    AtFirstRead =>
        NotPing(written) = RegistrationLines(UserLineRFC2812(CfgUser, CfgName))

\* The order and the PASS rule of C1 with the USER line as the code formats it.
C1_RegistrationAsCoded ==
    AtFirstRead => NotPing(written) = RegistrationLines(UserLine(CfgUser, CfgName))

(***************************************************************************)
(* The read loop.                                                          *)
(***************************************************************************)
\* C2: with a handler installed, every message read has been passed to the
\* handler, once and in arrival order, by the time Run reads again or has
\* left the read loop.
C2_HandlerEveryMessage ==
    (cfg.handler /\ pcMain \notin {"filter", "handle"}) =>
        handled = [i \in 1..nRead |-> i]

\* a PRIVMSG whose trailing is framed by 0x01 bytes
IsFramed(m) ==
    /\ m.command = cPRIVMSG
    /\ Len(Trailing(m)) >= 2
    /\ Trailing(m)[1] = SOH
    /\ Trailing(m)[Len(Trailing(m))] = SOH

\* C3: when the handler is invoked for a message, the matching filter has
\* run exactly once on it (and none if no filter matches), and the handler
\* sees what the filter did: the nick of a 001, the new nick of a NICK of
\* the client itself, the command CTCP and the unframed text of a CTCP.
C3_FilterBeforeHandler ==
    pcMain = "handle" =>
        /\ filterRuns = (IF HasFilter(curIn) THEN 1 ELSE 0)
        /\ (curIn.command = c001 /\ Len(curIn.params) > 0)
               => currentNick = curIn.params[1]
        /\ (curIn.command = cNICK /\ Len(curIn.params) > 0)
               => (currentNick = curIn.params[1] \/ curIn.prefix # currentNick)
        /\ IsFramed(curIn) =>
               /\ cur.command = cCTCP
               /\ Trailing(cur) = SubSeq(Trailing(curIn), 2,
                                         Len(Trailing(curIn)) - 1)

C3_Witness ==
    /\ pcMain = "handle"
    /\ IsFramed(curIn)
    /\ cur.command = cCTCP
    /\ filterRuns = 1

(***************************************************************************)
(* The error funnel and the shutdown.                                      *)
(***************************************************************************)
\* Run has taken its error from errChan
Returning ==
    pcMain \in {"closeexiting", "wait", "stoplimiter", "stopwait", "done"}

\* C4: the error Run returns is the first error that was sent to the funnel;
\* the errors sent after it never replace it.
C4_FirstErrorReturned ==
    Returning => (errLog # <<>> /\ runErr = errLog[1])

C4_Witness ==
    /\ pcMain = "done"
    /\ Len(errLog) >= 2
    /\ errLog[1] = PingTimeout
    /\ errLog[2] = "closed"
    /\ runErr = PingTimeout

\* C5: a goroutine that reports a fatal error never finds the funnel full,
\* whichever of the read loop, the PING ticker and the PONG checker failed
\* before it.
C5_ErrorSendNeverBlocks ==
    (pcMain = "senderr" \/ (Alive /\ (pcT = "senderr" \/ pcC = "senderr")))
        => Len(errChan) < ErrChanCap

\* the read loop, the ticker and the checker all reported an error
C5_Witness ==
    /\ Len(errLog) = 3
    /\ PingTimeout \in {errLog[i] : i \in 1..3}
    /\ pcT \in {"close", "done"}
    /\ pcMain \notin {"read", "senderr"}

\* C7: when Run has returned, Close has been called on the transport.
C7_ClosedOnReturn == pcMain = "done" => closeCalled

\* C9: the checker raises a PING timeout only while a ping is unanswered: a
\* ping whose PONG was processed before the timer fired raises none.
C9_NoTimeoutAfterPong ==
    [][(pcC = "select" /\ pcC' = "senderr") => sentPings # <<>>]_vars

\* the PONG being filtered matches no outstanding ping
NoMatch(m) == sentPings = <<>> \/ Itoa(sentPings[1]) # Trailing(m)

AllExited ==
    /\ pcMain = "done"
    /\ pcT \in {"off", "done"}
    /\ pcC \in {"off", "done"}
    /\ pcL \in {"off", "done"}

\* C6: once Run has taken the first fatal error from the funnel, the ping
\* loop and the limiter exit and Run returns.
C6_ShutdownCompletes == (pcMain = "closeexiting") ~> AllExited

\* C8: when the PONG checker's timeout is the first error of the funnel (a
\* PING was sent and the timer fired with the ping unanswered), Run returns
\* and the error it returns is the PING timeout.
C8_TimeoutReturned ==
    (errLog # <<>> /\ errLog[1] = PingTimeout)
        ~> (pcMain = "done" /\ runErr = PingTimeout)

(***************************************************************************)
(* The rate limiter: runs with SendLimit > 0 in which the refill periods  *)
(* are counted.                                                            *)
(***************************************************************************)
\* a refill period of the limiter, counted
LimiterPeriod ==
    /\ nLimTicks < MaxLimTicks
    /\ LimiterRefill
    /\ nLimTicks' = nLimTicks + 1
    /\ UNCHANGED <<pcU, uWrites>>
    /\ UNCHANGED studyVars

LimInit == Init /\ cfg.limitOn /\ cfg.pass = CfgPass /\ cfg.handler

LimNext == RunNext \/ LimiterPeriod

LimSpec == LimInit /\ [][LimNext]_vars

C12_BurstZeroBanksToken ==
    [][(cfg.limitOn /\ cfg.burst = 0 /\ nLimTicks' = nLimTicks + 1)
           => tokens' = TokensAfterTick(1, tokens, WriterWaiting)]_vars

(***************************************************************************)
(* A writer outside Run: a goroutine of the application that calls        *)
(* c.Write while Run is running, and so goes through writeCallback.       *)
(***************************************************************************)
\* the line the application writes
AppLine == <<"A">>

\* c.Write(line) is called
UserCall ==
    /\ Alive
    /\ pcU = "idle"
    /\ uWrites < MaxUserWrites
    /\ pcU' = "check"
    /\ UNCHANGED <<runVars, nLimTicks, uWrites>>
    /\ UNCHANGED studyVars

\* if c.limiter != nil
UserCheck ==
    /\ Alive
    /\ pcU = "check"
    /\ pcU' = IF limiter = "nil" THEN "write" ELSE "recv"
    /\ UNCHANGED <<runVars, nLimTicks, uWrites>>
    /\ UNCHANGED studyVars

\* the channel operand of <-c.limiter.  The field is read without
\* synchronization while the limiter goroutine may assign nil to it: the
\* operand is the channel the nil test saw (load = "first") or what the field
\* holds now (load = "second").
ChannelLoaded(load) == IF load = "first" THEN "chan" ELSE limiter

UserLoad(load) ==
    /\ Alive
    /\ pcU = "recv"
    /\ pcU' = IF ChannelLoaded(load) = "nil" THEN "waitnil" ELSE "wait"
    /\ UNCHANGED <<runVars, nLimTicks, uWrites>>
    /\ UNCHANGED studyVars

\* <-c.limiter on the channel: a token, or the zero value once it is closed
UserRecv ==
    /\ Alive
    /\ pcU = "wait"
    /\ LimiterGate
    /\ tokens' = TokensAfterGate
    /\ pcU' = "write"
    /\ UNCHANGED <<cfg, pcMain, pcT, pcC, pcL, currentNick, sentPings, tickTs,
                   tickErr, pingSent, limiter, errChan, exiting, closeCalled,
                   written, clock, nTicks, nRead, cur, curIn, filterRuns,
                   readErr, runErr, handled, errLog, nLimTicks, uWrites>>
    /\ UNCHANGED studyVars

\* _, err := w.writer.Write([]byte(line + "\r\n")); return err
UserWrite(r) ==
    /\ Alive
    /\ pcU = "write"
    /\ r = "ok" => ~closeCalled
    /\ written' = IF r = "ok" THEN Append(written, AppLine) ELSE written
    /\ uWrites' = uWrites + 1
    /\ pcU' = "idle"
    /\ UNCHANGED <<cfg, pcMain, pcT, pcC, pcL, currentNick, sentPings, tickTs,
                   tickErr, pingSent, limiter, tokens, errChan, exiting,
                   closeCalled, clock, nTicks, nRead, cur, curIn, filterRuns,
                   readErr, runErr, handled, errLog, nLimTicks>>
    /\ UNCHANGED studyVars

UserNext ==
    \/ UserCall
    \/ UserCheck
    \/ \E load \in {"first", "second"} : UserLoad(load)
    \/ UserRecv
    \/ \E r \in WriteOutcomes : UserWrite(r)

\* the steps of the writer that do not wait for the peer
UserStep ==
    \/ UserCheck
    \/ \E load \in {"first", "second"} : UserLoad(load)
    \/ UserRecv
    \/ closeCalled /\ \E r \in WriteOutcomes : UserWrite(r)

\* runs with the limiter, without the ping loop, and with the writer
WriterInit ==
    /\ RunInit
    /\ cfg.limitOn /\ ~cfg.pingOn /\ cfg.pass = <<>> /\ cfg.handler
    /\ nLimTicks = 0
    /\ pcU = "idle"
    /\ uWrites = 0
    /\ StudyIdle

WriterNext == MainNext \/ LimiterTick \/ LimiterClose \/ UserNext

WriterSpec ==
    /\ WriterInit
    /\ [][WriterNext]_vars
    /\ WF_vars(MainStep)
    /\ WF_vars(LimiterStep)
    /\ WF_vars(UserStep)

\* the writer is in writeCallback, past the nil test and not yet past the
\* receive from c.limiter
AwaitingToken == pcU \in {"recv", "wait", "waitnil"}

\* C13: once the shutdown has begun (exiting is closed), a writer that waits
\* for a token in writeCallback gets out of the wait.
C13_WriterReleased == (exiting /\ AwaitingToken) ~> ~AwaitingToken

(***************************************************************************)
(* Several tasks write lines to one connection.  Writer.Write and           *)
(* writeCallback hand line + "\r\n" to the transport in one Write;          *)
(* Conn.Write hands over the line and then "\r\n" in two.                    *)
(***************************************************************************)

CRLF == <<"\r", "\n">>

\* the k-th line task t writes: a letter for the task and the digit k
TaskLine(t, k) == <<(<<"a", "b", "c">>)[t], Digits[k + 1]>>

\* the byte slices one call of Write(line) passes to the transport, in order
Chunks(a, line) ==
    IF a = "Conn.Write" THEN <<line, CRLF>> ELSE <<line \o CRLF>>

\* task t calls Write with its next line
TaskCall(t) ==
    /\ api # "none"
    /\ wq[t] = <<>>
    /\ wsub[t] < MaxLines
    /\ wsub' = [wsub EXCEPT ![t] = @ + 1]
    /\ wq' = [wq EXCEPT ![t] = Chunks(api, TaskLine(t, wsub[t] + 1))]
    /\ UNCHANGED <<api, wire>>
    /\ UNCHANGED <<runVars, limVars, capVars, loopVars, parseVars, lateVars>>

\* the next call of the transport's Write made by task t
TransportWrite(t) ==
    /\ wq[t] # <<>>
    /\ wire' = wire \o Head(wq[t])
    /\ wq' = [wq EXCEPT ![t] = Tail(@)]
    /\ UNCHANGED <<api, wsub>>
    /\ UNCHANGED <<runVars, limVars, capVars, loopVars, parseVars, lateVars>>

WireInit ==
    /\ RunInit
    /\ ~cfg.limitOn /\ ~cfg.pingOn /\ cfg.pass = <<>> /\ cfg.handler
    /\ nLimTicks = 0
    /\ pcU = "off"
    /\ uWrites = 0
    /\ api \in {"Writer.Write", "writeCallback", "Conn.Write"}
    /\ wire = <<>>
    /\ wq = [t \in Tasks |-> <<>>]
    /\ wsub = [t \in Tasks |-> 0]
    /\ CapIdle
    /\ history = <<>>
    /\ ParseIdle
    /\ LateIdle

WireNext == \E t \in Tasks : TaskCall(t) \/ TransportWrite(t)

WireSpec == WireInit /\ [][WireNext]_vars

\* the lines the tasks write
AllLines == {TaskLine(t, k) : t \in Tasks, k \in 1..MaxLines}

StartsWith(w, p) == Len(w) >= Len(p) /\ SubSeq(w, 1, Len(p)) = p

\* w is made of units line CRLF, the last of which may still lack its CRLF
RECURSIVE LineUnits(_)
LineUnits(w) ==
    \/ w = <<>>
    \/ w \in AllLines
    \/ \E l \in AllLines :
          /\ StartsWith(w, l \o CRLF)
          /\ LineUnits(SubSeq(w, Len(l) + Len(CRLF) + 1, Len(w)))

\* the digits of the lines of task t in w, in the order they appear
RECURSIVE LinesOf(_, _)
LinesOf(t, w) ==
    IF Len(w) < 2 THEN <<>>
    ELSE IF Head(w) = Head(TaskLine(t, 1))
         THEN <<w[2]>> \o LinesOf(t, Tail(w))
         ELSE LinesOf(t, Tail(w))

\* C14: when several tasks call Write concurrently, the bytes that reached
\* the transport are line CRLF units (no byte of another writer between a
\* line and its CRLF), and the lines of one task are in the order the task
\* wrote them.
C14_LineUnits ==
    /\ LineUnits(wire)
    /\ \A t \in Tasks :
          \A j \in 1..Len(LinesOf(t, wire)) :
             LinesOf(t, wire)[j] = Digits[j + 1]

\* the same for the connections whose Write hands line + CRLF over at once
C14_OneWriteUnits == api # "Conn.Write" => C14_LineUnits

(***************************************************************************)
(* The capability handshake.  The application requests capabilities        *)
(* before Run; Run writes PASS, CAP LS, one CAP REQ per capability, NICK    *)
(* and USER, and the read loop passes every CAP message to a filter.  A     *)
(* line is the sequence of its words.                                       *)
(***************************************************************************)

CapLS == <<"CAP", "LS">>
CapREQ(n) == <<"CAP", "REQ", n>>
CapEND == <<"CAP", "END">>

Requested == {n \in CapNames : caps[n].requested}

\* cap_request(name, required), before Run
CapRequest(n, r) ==
    /\ capPc = "setup"
    /\ ~caps[n].requested
    /\ caps' = [caps EXCEPT ![n].requested = TRUE, ![n].required = r]
    /\ UNCHANGED <<capPc, remaining, capOut, capErr, capRet, capSeen, nCapMsgs,
                   capLate>>
    /\ UNCHANGED <<runVars, limVars, wireVars, loopVars, parseVars, lateVars>>

\* Run is called: PASS :<pass> if a password is configured
CapRunStart ==
    /\ capPc = "setup"
    /\ capPc' = "ls"
    /\ capOut' = IF cfg.pass # <<>> THEN Append(capOut, <<"PASS">>) ELSE capOut
    /\ UNCHANGED <<caps, remaining, capErr, capRet, capSeen, nCapMsgs,
                   capLate>>
    /\ UNCHANGED <<runVars, limVars, wireVars, loopVars, parseVars, lateVars>>

\* CAP LS if any capability was requested; its reply is counted
CapWriteLS ==
    /\ capPc = "ls"
    /\ IF Requested # {}
       THEN /\ capOut' = Append(capOut, CapLS)
            /\ remaining' = remaining + 1
            /\ capPc' = "req"
       ELSE /\ capPc' = "nick"
            /\ UNCHANGED <<capOut, remaining>>
    /\ UNCHANGED <<caps, capErr, capRet, capSeen, nCapMsgs,
                   capLate>>
    /\ UNCHANGED <<runVars, limVars, wireVars, loopVars, parseVars, lateVars>>

\* the capabilities whose CAP REQ is not written yet
ToRequest == {n \in Requested : \A i \in 1..Len(capOut) : capOut[i] # CapREQ(n)}

AfterRequestUncounted(r) == r

\* the counter after one more request was written
AfterRequest(r) == r + 1

\* CAP REQ :<cap> for one more requested capability, in any order
CapWriteReq(n) ==
    /\ capPc = "req"
    /\ n \in ToRequest
    /\ capOut' = Append(capOut, CapREQ(n))
    /\ remaining' = AfterRequest(remaining)
    /\ capPc' = IF ToRequest = {n} THEN "nick" ELSE "req"
    /\ UNCHANGED <<caps, capErr, capRet, capSeen, nCapMsgs,
                   capLate>>
    /\ UNCHANGED <<runVars, limVars, wireVars, loopVars, parseVars, lateVars>>

CapWriteNick ==
    /\ capPc = "nick"
    /\ capOut' = Append(capOut, <<"NICK">>)
    /\ capPc' = "user"
    /\ UNCHANGED <<caps, remaining, capErr, capRet, capSeen, nCapMsgs,
                   capLate>>
    /\ UNCHANGED <<runVars, limVars, wireVars, loopVars, parseVars, lateVars>>

\* USER is written and the read loop starts
CapWriteUser ==
    /\ capPc = "user"
    /\ capOut' = Append(capOut, <<"USER">>)
    /\ capPc' = "read"
    /\ UNCHANGED <<caps, remaining, capErr, capRet, capSeen, nCapMsgs,
                   capLate>>
    /\ UNCHANGED <<runVars, limVars, wireVars, loopVars, parseVars, lateVars>>

\* the CAP messages of the server: CAP * <sub> :<names>, and CAP * <sub>
\* without the list
CapMsgs ==
    [sub : {"LS", "ACK", "NAK"}, hasList : {TRUE}, list : SUBSET CapNames]
    \cup [sub : {"LS", "ACK", "NAK"}, hasList : {FALSE}, list : {{}}]

WellFormedAlways(m) == TRUE

WellFormed(m) == m.hasList

NegotiatedAlways(m) == WellFormed(m)

\* the messages the filter acts on: well-formed, during the negotiation
Negotiated(m) == remaining > 0 /\ WellFormed(m)

AfterResponseTwice(r) == IF r > 1 THEN r - 2 ELSE 0

\* the counter after one reply
AfterResponse(r) == r - 1

MarkEnabledRequested(cs, list) ==
    [n \in CapNames |-> IF n \in list /\ cs[n].requested
                        THEN [cs[n] EXCEPT !.enabled = TRUE]
                        ELSE cs[n]]

\* ACK: every listed capability is enabled
MarkEnabled(cs, list) ==
    [n \in CapNames |-> IF n \in list THEN [cs[n] EXCEPT !.enabled = TRUE]
                                      ELSE cs[n]]

\* the flags after m
CapsAfter(m) ==
    IF ~Negotiated(m) THEN caps
    ELSE IF m.sub = "LS"
         THEN [n \in CapNames |->
                  IF n \in m.list THEN [caps[n] EXCEPT !.available = TRUE]
                                  ELSE caps[n]]
    ELSE IF m.sub = "ACK" THEN MarkEnabled(caps, m.list)
    ELSE [n \in CapNames |->
             IF n \in m.list THEN [caps[n] EXCEPT !.enabled = FALSE]
                             ELSE caps[n]]

SeenAfter(m) ==
    IF ~Negotiated(m) THEN capSeen
    ELSE IF m.sub = "LS" THEN [capSeen EXCEPT !.ls = @ \cup m.list]
    ELSE IF m.sub = "ACK" THEN [capSeen EXCEPT !.ack = @ \cup m.list]
    ELSE [capSeen EXCEPT !.nak = @ \cup m.list]

RejectsNone(list) == {}

\* NAK: the listed capabilities that were requested as required
Rejects(list) == {n \in list : caps[n].requested /\ caps[n].required}

UnsettledNone(seen) == {}

\* the required capabilities that no ACK and no NAK has listed
Unsettled(seen) ==
    {n \in Requested : caps[n].required /\ n \notin seen.ack \cup seen.nak}

\* the errors m can surface: CapRejected for a required capability a NAK
\* lists; CapNotAccepted when the counter reaches zero
CapErrors(m) ==
    LET rejected == IF Negotiated(m) /\ m.sub = "NAK" THEN Rejects(m.list)
                    ELSE {}
        unsettled == IF Negotiated(m) /\ AfterResponse(remaining) = 0
                     THEN Unsettled(SeenAfter(m)) ELSE {}
    IN  IF rejected # {}
        THEN {[kind |-> "CapRejected", cap |-> n] : n \in rejected}
        ELSE IF unsettled # {}
        THEN {[kind |-> "CapNotAccepted", cap |-> n] : n \in unsettled}
        ELSE {NoErr}

\* the error funnel keeps the first error
Surface(e) == IF capErr = NoErr THEN e ELSE capErr

\* the read loop reads m and the CAP filter runs on it
CapRead(m) ==
    /\ capPc = "read"
    /\ capRet = NoErr
    /\ nCapMsgs < MaxCapMsgs
    /\ nCapMsgs' = nCapMsgs + 1
    /\ capLate' = IF remaining = 0 THEN capLate + 1 ELSE capLate
    /\ caps' = CapsAfter(m)
    /\ capSeen' = SeenAfter(m)
    /\ remaining' = IF Negotiated(m) THEN AfterResponse(remaining)
                    ELSE remaining
    /\ capOut' = IF Negotiated(m) /\ AfterResponse(remaining) = 0
                 THEN Append(capOut, CapEND) ELSE capOut
    /\ \E e \in CapErrors(m) : capErr' = Surface(e)
    /\ UNCHANGED <<capPc, capRet>>
    /\ UNCHANGED <<runVars, limVars, wireVars, loopVars, parseVars, lateVars>>

\* the read fails (the stream ended, or Run has closed the transport) and
\* the read loop ends
CapReadErr ==
    /\ capPc = "read"
    /\ capPc' = "ended"
    /\ capErr' = Surface([kind |-> "EOF", cap |-> ""])
    /\ UNCHANGED <<caps, remaining, capOut, capRet, capSeen, nCapMsgs,
                   capLate>>
    /\ UNCHANGED <<runVars, limVars, wireVars, loopVars, parseVars, lateVars>>

\* Run takes the first error from the funnel and returns it
CapReturn ==
    /\ capPc \in {"read", "ended"}
    /\ capErr # NoErr
    /\ capRet = NoErr
    /\ capRet' = capErr
    /\ UNCHANGED <<capPc, caps, remaining, capOut, capErr, capSeen, nCapMsgs,
                   capLate>>
    /\ UNCHANGED <<runVars, limVars, wireVars, loopVars, parseVars, lateVars>>

CapInit ==
    /\ RunInit
    /\ ~cfg.limitOn /\ ~cfg.pingOn /\ cfg.handler
    /\ nLimTicks = 0
    /\ pcU = "off"
    /\ uWrites = 0
    /\ WireIdle
    /\ capPc = "setup"
    /\ CapNew
    /\ history = <<>>
    /\ ParseIdle
    /\ LateIdle

CapNext ==
    \/ \E n \in Requestable, r \in BOOLEAN : CapRequest(n, r)
    \/ CapRunStart
    \/ CapWriteLS
    \/ \E n \in Requestable : CapWriteReq(n)
    \/ CapWriteNick
    \/ CapWriteUser
    \/ \E m \in CapMsgs : CapRead(m)
    \/ CapReadErr
    \/ CapReturn

CapSpec == CapInit /\ [][CapNext]_vars

\* the position of line l in capOut, 0 if it was not written
PosOf(l) ==
    IF \E i \in 1..Len(capOut) : capOut[i] = l
    THEN CHOOSE i \in 1..Len(capOut) : capOut[i] = l
    ELSE 0

\* the lines of capOut that are equal to l
Count(l) == Cardinality({i \in 1..Len(capOut) : capOut[i] = l})

IsCapLine(l) == Head(l) = "CAP"

\* the read loop has started and has read nothing
StartupDone == capPc = "read" /\ nCapMsgs = 0

\* C15: when Run has written its startup lines, with a capability requested
\* they are [PASS,] CAP LS, one CAP REQ per requested capability, NICK, USER
\* and the counter is the number of requests plus one; with none requested
\* no CAP line was written.
C15_CapStartup ==
    StartupDone =>
        LET k == Cardinality(Requested)
            p == IF cfg.pass # <<>> THEN 1 ELSE 0
        IN  IF k > 0
            THEN /\ Len(capOut) = p + 1 + k + 2
                 /\ p = 1 => capOut[1] = <<"PASS">>
                 /\ capOut[p + 1] = CapLS
                 /\ \A n \in Requested :
                       /\ Count(CapREQ(n)) = 1
                       /\ PosOf(CapREQ(n)) \in (p + 2)..(p + 1 + k)
                 /\ capOut[p + k + 2] = <<"NICK">>
                 /\ capOut[p + k + 3] = <<"USER">>
                 /\ remaining = k + 1
            ELSE /\ \A i \in 1..Len(capOut) : ~IsCapLine(capOut[i])
                 /\ remaining = 0

C15_Witness ==
    /\ StartupDone
    /\ Requested = Requestable
    /\ cfg.pass # <<>>
    /\ remaining = 3

\* the CAP END lines written
CountEnd == Count(CapEND)

\* C16: every CAP LS, ACK or NAK with its list that is read while the
\* counter is positive lowers the counter by exactly one, and CAP END is
\* written in the step that brings the counter to zero and in no other.
C16_CounterAndEnd ==
    [][/\ \A m \in CapMsgs :
             (CapRead(m) /\ remaining > 0 /\ m.hasList)
                 => remaining' = remaining - 1
       /\ CountEnd' \in {CountEnd, CountEnd + 1}
       /\ (CountEnd' = CountEnd + 1) <=> (remaining > 0 /\ remaining' = 0)]_vars

C16_Witness ==
    /\ Requested = Requestable
    /\ nCapMsgs = 3
    /\ remaining = 0
    /\ capOut[Len(capOut)] = CapEND

\* C17: the step that processes a CAP ACK with its list during the
\* negotiation leaves every listed capability enabled; a capability that no
\* such ACK has listed, requested or not, is not enabled; and a capability
\* is available exactly when a CAP LS processed during the negotiation has
\* listed it.
C17_EnabledAndAvailable ==
    /\ [](\A n \in CapNames :
             /\ caps[n].enabled => n \in capSeen.ack
             /\ caps[n].available <=> n \in capSeen.ls)
    /\ [][\A m \in CapMsgs :
             (CapRead(m) /\ remaining > 0 /\ m.hasList /\ m.sub = "ACK")
                 => \A n \in m.list : caps'[n].enabled]_vars

C17_Witness ==
    /\ Requested = Requestable
    /\ capSeen.ls = {"multi-prefix", "random-thing"}
    /\ capSeen.ack = {"multi-prefix", "random-thing"}
    /\ caps["multi-prefix"].enabled /\ caps["random-thing"].enabled
    /\ ~caps["sasl"].enabled /\ ~caps["sasl"].available

\* the step reads the CAP NAK m, with its list, during the negotiation
NakStep(m) == CapRead(m) /\ remaining > 0 /\ m.hasList /\ m.sub = "NAK"

\* the capabilities of a list that were requested as required
RequiredIn(list) == {n \in list : caps[n].requested /\ caps[n].required}

CapRejected(n) == [kind |-> "CapRejected", cap |-> n]

\* C18: a CAP NAK that lists a capability requested as required makes Run
\* return CapRejected for that capability and leaves it not enabled; a NAK
\* that lists only capabilities not required raises no error.
C18_NakRequired ==
    /\ [][\A m \in CapMsgs :
             NakStep(m) =>
                 /\ \A n \in RequiredIn(m.list) :
                       capErr' = CapRejected(n) /\ ~caps'[n].enabled
                 /\ RequiredIn(m.list) = {} => capErr' = capErr]_vars
    /\ [](capRet # NoErr => capRet = capErr)

\* C18, amended: a CAP NAK that lists required capabilities surfaces
\* CapRejected for one of them, and Run returns the first error surfaced,
\* which is then a CapRejected of this or of an earlier NAK; every listed
\* capability is left not enabled.  A NAK that lists none surfaces no
\* CapRejected: it surfaces nothing, or CapNotAccepted when it brings the
\* counter to zero while a required capability has no ACK and no NAK.  CAP
\* END is written when the NAK brings the counter to zero.
C18_NakAmended ==
    /\ [][\A m \in CapMsgs :
             NakStep(m) =>
                 /\ \A n \in m.list : ~caps'[n].enabled
                 /\ RequiredIn(m.list) # {} =>
                       /\ capErr'.kind = "CapRejected"
                       /\ capErr = NoErr => capErr'.cap \in RequiredIn(m.list)
                 /\ RequiredIn(m.list) = {} =>
                       \/ capErr' = capErr
                       \/ /\ capErr = NoErr
                          /\ remaining' = 0
                          /\ capErr'.kind = "CapNotAccepted"
                          /\ capErr'.cap \in Requested
                          /\ caps[capErr'.cap].required
                          /\ capErr'.cap \notin capSeen'.ack \cup capSeen'.nak
                 /\ remaining' = 0 => CountEnd' = CountEnd + 1]_vars
    /\ [](capRet # NoErr => capRet = capErr)

C18_Witness ==
    /\ capRet = CapRejected("multi-prefix")
    /\ caps["multi-prefix"].required
    /\ "multi-prefix" \in capSeen.nak
    /\ ~caps["multi-prefix"].enabled

\* the capabilities requested as required that no ACK and no NAK processed
\* during the negotiation has listed
UnsettledNow ==
    {n \in CapNames : /\ caps[n].requested /\ caps[n].required
                      /\ n \notin capSeen.ack \cup capSeen.nak}

\* the step brings the counter to zero and leaves a required capability
\* without ACK and without NAK
ZeroUnsettled == remaining > 0 /\ remaining' = 0 /\ UnsettledNow' # {}

\* C19: when the counter reaches zero and a capability requested as required
\* was neither ACKed nor NAKed, Run returns CapNotAccepted for such a
\* capability.
C19_NotAccepted ==
    /\ [][ZeroUnsettled =>
             /\ capErr'.kind = "CapNotAccepted"
             /\ capErr'.cap \in UnsettledNow']_vars
    /\ [](capRet # NoErr => capRet = capErr)

\* C19, amended: in that step CapNotAccepted is surfaced for such a
\* capability unless CapRejected was surfaced before it or is surfaced by the
\* same message; Run returns the first error surfaced.
C19_NotAcceptedAmended ==
    /\ [][ZeroUnsettled =>
             /\ capErr # NoErr => capErr' = capErr
             /\ \/ /\ capErr'.kind = "CapNotAccepted"
                   /\ capErr'.cap \in UnsettledNow'
                \/ /\ capErr'.kind = "CapRejected"
                   /\ capErr'.cap \in capSeen'.nak
                   /\ caps[capErr'.cap].required]_vars
    /\ [](capRet # NoErr => capRet = capErr)

C19_Witness ==
    /\ capRet = [kind |-> "CapNotAccepted", cap |-> "multi-prefix"]
    /\ remaining = 0
    /\ nCapMsgs = 2
    /\ capSeen.ack = {} /\ capSeen.nak = {}

\* C20: a CAP message without its list changes no flag, leaves the counter
\* as it is, surfaces no error and writes nothing; a CAP ACK with its list
\* read when one reply is outstanding then writes CAP END.
C20_MalformedIgnored ==
    [][\A m \in CapMsgs :
          CapRead(m) =>
              /\ ~m.hasList =>
                    /\ caps' = caps
                    /\ remaining' = remaining
                    /\ capErr' = capErr
                    /\ capOut' = capOut
                    /\ capSeen' = capSeen
              /\ (m.hasList /\ m.sub = "ACK" /\ remaining = 1) =>
                    /\ remaining' = 0
                    /\ capOut' = Append(capOut, CapEND)]_vars

\* one capability requested, two messages read, and only the CAP LS was
\* counted: the other one was read during the negotiation and ignored
C20_Witness ==
    /\ Requested = {"multi-prefix"}
    /\ nCapMsgs = 2
    /\ remaining = 1
    /\ capSeen.ls = {"multi-prefix"}
    /\ capErr = NoErr

\* C21: once CAP END is written, reading a CAP message changes no enabled
\* and no available flag, surfaces no error and writes no line; CAP END is
\* never written twice.
C21_AfterEndIgnored ==
    /\ [][\A m \in CapMsgs :
             (CapRead(m) /\ CountEnd > 0) =>
                 /\ caps' = caps
                 /\ capErr' = capErr
                 /\ capOut' = capOut]_vars
    /\ [](CountEnd <= 1)

\* a required capability is enabled, CAP END is written, and two more
\* messages were read
C21_Witness ==
    /\ CountEnd = 1
    /\ capLate = 2
    /\ caps["multi-prefix"].required /\ caps["multi-prefix"].enabled
    /\ capErr = NoErr

(***************************************************************************)
(* The read loop and its filters, on a transport that accepts every write, *)
(* without ping loop and without limiter.                                   *)
(***************************************************************************)

\* the messages the server sends in these runs
LoopIncoming ==
    { Msg(<<>>, c001, <<OtherNick>>),
      Msg(<<>>, c001, <<>>),
      Msg(<<>>, c433, <<>>),
      Msg(<<>>, c437, <<>>),
      Msg(<<>>, cPING, << <<"x">> >>),
      Msg(<<>>, cPING, <<>>),
      Msg(<<>>, cPING, << <<"a">>, <<"b", " ", "c">> >>),
      Msg(<<>>, cPING, << <<>> >>),
      Msg(CfgNick, cNICK, <<OtherNick>>),
      Msg(CfgNick \o <<"_">>, cNICK, <<OtherNick>>),
      Msg(<<"w">>, cNICK, <<OtherNick>>),
      Msg(CfgNick, cNICK, <<>>),
      Msg(<<"w">>, cPRIVMSG, << CfgNick, <<SOH, "V", SOH>> >>),
      Msg(<<"w">>, cPRIVMSG, << <<SOH, "V">> >>),
      Msg(<<"w">>, cPRIVMSG, << <<"V", SOH>> >>),
      Msg(<<"w">>, cPRIVMSG, << <<SOH, SOH>> >>),
      Msg(<<"w">>, cPRIVMSG, << <<SOH>> >>),
      Msg(<<"w">>, cPRIVMSG, << <<"#">>, <<"h", "i">> >>),
      Msg(<<"w">>, cPRIVMSG, <<>>),
      Msg(<<"w">>, cNOTICE, << <<"x">> >>) }

\* m, err := c.ReadMessage() with err == nil
LoopRead(m) ==
    /\ ReadFrom(m, LoopIncoming, MaxLoopMsgs)
    /\ history' = Append(history, m)
    /\ UNCHANGED <<limVars, wireVars, capVars, parseVars, lateVars>>

LoopInit ==
    /\ RunInit
    /\ ~cfg.limitOn /\ ~cfg.pingOn /\ cfg.pass = <<>>
    /\ AuxIdle

LoopNext ==
    \/ RunStart
    \/ WritePass("ok")
    \/ WriteNick("ok")
    \/ WriteUser("ok")
    \/ \E m \in LoopIncoming : LoopRead(m)
    \/ ReadErr("EOF")
    \/ Filter("ok")
    \/ Handle
    \/ MainSendErr
    \/ MainRecvErr
    \/ CloseExiting
    \/ WgWait
    \/ StopLimiter

LoopSpec == LoopInit /\ [][LoopNext]_vars

\* to_string: the prefix, the command, the parameters; the last one after
\* " :" if it has a space, starts with ':' or is empty
ToStringSpec(m) ==
    LET pre == IF m.prefix # <<>> THEN <<":">> \o m.prefix \o <<" ">> ELSE <<>>
        n == Len(m.params)
        last == m.params[n]
        trailing == last = <<>> \/ HasSpace(last) \/ Head(last) = ":"
    IN  IF n = 0 THEN pre \o m.command
        ELSE pre \o m.command \o JoinSp(SubSeq(m.params, 1, n - 1))
                 \o (IF trailing THEN <<" ", ":">> ELSE <<" ">>) \o last

\* the filter is about to run on a message with command c
Filtering(c) == pcMain = "filter" /\ cur.command = c

C22_PongForPingNonEmpty ==
    [][(Filtering(cPING) /\ ~(Len(cur.params) > 0 /\ Trailing(cur) = <<>>)) =>
          /\ pcMain' = "handle"
          /\ cur' = cur
          /\ written' = Append(written, ToStringSpec([cur EXCEPT !.command = cPONG]))
      ]_vars

\* k underscores
RECURSIVE Underscores(_)
Underscores(k) == IF k = 0 THEN <<>> ELSE <<"_">> \o Underscores(k - 1)

IsCollision(m) == m.command \in {c433, c437}

\* the filter of the last message read has run
Filtered == pcMain \in {"handle", "read"}

Registered == \E i \in 1..(Len(history) - 1) : history[i].command = c001

\* C24: once a 001 was processed, the filter step of a 433 or 437 leaves the
\* current nick as it is.
C24_NoAppendAfter001 ==
    [][((Filtering(c433) \/ Filtering(c437)) /\ Registered)
          => currentNick' = currentNick]_vars

\* C25: the filter step of a NICK whose source name is the current nick and
\* which has a parameter makes the first parameter the current nick; the
\* filter step of any other NICK leaves the current nick as it is.
C25_NickFollowsOwnNick ==
    [][Filtering(cNICK) =>
          currentNick' = IF cur.prefix = currentNick /\ Len(cur.params) > 0
                         THEN cur.params[1]
                         ELSE currentNick]_vars

\* after a collision the client is n_, and the NICK of n_ renamed it
C25_Witness ==
    /\ Filtered
    /\ Len(history) = 2
    /\ history[1].command = c433
    /\ history[2] = Msg(CfgNick \o <<"_">>, cNICK, <<OtherNick>>)
    /\ currentNick = OtherNick

\* m with command CTCP and the first and last byte of its last parameter
\* removed
Unframed(m) ==
    [m EXCEPT !.command = cCTCP,
              !.params[Len(m.params)] =
                  SubSeq(Trailing(m), 2, Len(Trailing(m)) - 1)]

\* C26: the filter step of a PRIVMSG rewrites it to a CTCP without the two
\* framing bytes if its last parameter has at least 2 bytes and begins and
\* ends with 0x01, and otherwise leaves it as it is; the handler gets a
\* PRIVMSG that is not framed as it arrived.
C26_CtcpIffFramed ==
    /\ [][Filtering(cPRIVMSG) =>
             cur' = IF IsFramed(cur) THEN Unframed(cur) ELSE cur]_vars
    /\ []((pcMain = "handle" /\ curIn.command = cPRIVMSG /\ ~IsFramed(curIn))
             => cur = curIn)

C26_Witness ==
    /\ pcMain = "handle"
    /\ curIn = Msg(<<"w">>, cPRIVMSG, << CfgNick, <<SOH, "V", SOH>> >>)
    /\ cur = Msg(<<"w">>, cCTCP, << CfgNick, <<"V">> >>)
    /\ \E i \in 1..Len(history) :
          history[i] = Msg(<<"w">>, cPRIVMSG, << <<SOH>> >>)

\* a FromChannel that compares with the configured nick
FromChannelConfigured(m) ==
    IF Len(m.params) < 1 THEN FALSE ELSE m.params[1] # CfgNick

\* func (c *Client) FromChannel(m *Message) bool: false without parameters,
\* otherwise m.Params[0] != c.currentNick
FromChannel(m) ==
    IF Len(m.params) < 1 THEN FALSE ELSE m.params[1] # currentNick

\* the nick a client that had the nick nick has after the message m
NickStep(nick, m) ==
    CASE m.command = c001 /\ Len(m.params) > 0 -> m.params[1]
      [] m.command \in {c433, c437} -> nick \o <<"_">>
      [] m.command = cNICK /\ m.prefix = nick /\ Len(m.params) > 0 ->
             m.params[1]
      [] OTHER -> nick

\* the nick after the first k messages of the history
RECURSIVE NickAfter(_)
NickAfter(k) ==
    IF k = 0 THEN CfgNick ELSE NickStep(NickAfter(k - 1), history[k])

\* the messages a handler asks FromChannel about
Probes ==
    {cur} \cup
    { Msg(<<"w">>, cPRIVMSG, ps) :
        ps \in { <<>>, <<CfgNick>>, <<CfgNick \o <<"_">> >>, <<OtherNick>>,
                 << <<"#">> >>, <<CfgNick, <<"h", "i">> >>,
                 << <<"#">>, CfgNick >> } }

\* C27: in the handler, FromChannel is false for a message without
\* parameters and otherwise true iff the first parameter differs from the
\* nick that the 001, NICK, 433 and 437 messages read so far have left.
C27_FromChannelFollowsNick ==
    pcMain = "handle" =>
        \A p \in Probes :
            FromChannel(p) = /\ Len(p.params) >= 1
                             /\ p.params[1] # NickAfter(Len(history))

\* after a collision a message to the configured nick is no longer a
\* message to the client, and one to the new nick is
C27_Witness ==
    /\ pcMain = "handle"
    /\ Len(history) = 3
    /\ history[1].command = c001
    /\ history[2].command = c437
    /\ cur.command = cCTCP
    /\ Len(cur.params) = 2
    /\ cur.params[1] = CfgNick
    /\ FromChannel(cur)
    /\ ~FromChannel(Msg(<<"w">>, cPRIVMSG, <<OtherNick \o <<"_">> >>))
    /\ ~FromChannel(Msg(<<"w">>, cPRIVMSG, <<>>))

(***************************************************************************)
(* The parser: strings are sequences of bytes.                             *)
(***************************************************************************)
\* unicode.IsSpace for the bytes of the lines explored
IsSpace(c) == c \in {" ", "\t", "\r", "\n"}

RECURSIVE TrimLeft(_)
TrimLeft(s) == IF s # <<>> /\ IsSpace(Head(s)) THEN TrimLeft(Tail(s)) ELSE s

RECURSIVE TrimRight(_)
TrimRight(s) ==
    IF s # <<>> /\ IsSpace(s[Len(s)])
    THEN TrimRight(SubSeq(s, 1, Len(s) - 1)) ELSE s

\* strings.TrimSpace
TrimSpace(s) == TrimRight(TrimLeft(s))

\* strings.Index(s, sep), counted from 1; 0 if sep does not occur
Index(s, sep) ==
    LET at == {i \in 1..(Len(s) - Len(sep) + 1) :
                  SubSeq(s, i, i + Len(sep) - 1) = sep}
    IN  IF at = {} THEN 0 ELSE CHOOSE i \in at : \A j \in at : i <= j

\* strings.SplitN(s, sep, 2)
SplitN(s, sep) ==
    LET i == Index(s, sep)
    IN  IF i = 0 THEN <<s>>
        ELSE <<SubSeq(s, 1, i - 1), SubSeq(s, i + Len(sep), Len(s))>>

RECURSIVE FieldsFunc(_)
\* strings.FieldsFunc(s, func(r rune) bool { return r == ' ' })
FieldsFunc(s) ==
    IF s = <<>> THEN <<>>
    ELSE IF Head(s) = " " THEN FieldsFunc(Tail(s))
    ELSE LET i == Index(s, <<" ">>)
         IN  IF i = 0 THEN <<s>>
             ELSE <<SubSeq(s, 1, i - 1)>>
                      \o FieldsFunc(SubSeq(s, i + 1, Len(s)))

\* ParseIdentity: the line is the Host; with an '@' the part before it is
\* the User; with a '!' in that part, it is Nick and User
ParseIdentity(line) ==
    LET uh == SplitN(line, <<"@">>)
    IN  IF Len(uh) # 2 THEN Identity(<<>>, <<>>, line)
        ELSE LET nu == SplitN(uh[1], <<"!">>)
             IN  IF Len(nu) # 2 THEN Identity(<<>>, uh[1], uh[2])
                 ELSE Identity(nu[1], nu[2], uh[2])

\* func (i *Identity) String() string
IdentityString(i) ==
    IF i.nick # <<>> THEN i.nick \o <<"!">> \o i.user \o <<"@">> \o i.host
    ELSE IF i.user # <<>> THEN i.user \o <<"@">> \o i.host
    ELSE i.host

\* ParseEvent: nil for an empty line, a prefix without data after it, or no
\* command
ParseEvent(line) ==
    LET l0 == TrimSpace(line)
        hasId == l0 # <<>> /\ Head(l0) = ":"
        idSplit == SplitN(l0, <<" ">>)
        id == IF hasId /\ Len(idSplit) = 2
              THEN ParseIdentity(Tail(idSplit[1]))
              ELSE Identity(<<>>, <<>>, <<>>)
        l1 == IF hasId /\ Len(idSplit) = 2 THEN idSplit[2] ELSE l0
        split == SplitN(l1, <<" ", ":">>)
        head == FieldsFunc(split[1])
        args == IF Len(split) = 2 THEN Append(head, split[2]) ELSE head
    IN  IF l0 = <<>> THEN NilEvent
        ELSE IF hasId /\ Len(idSplit) < 2 THEN NilEvent
        ELSE IF head = <<>> THEN NilEvent
        ELSE Event(id, Head(args), Tail(args))

\* func (e *Event) String(): trailing[0] of an empty last argument is out of
\* range and panics
EventStringPanics(e) == Len(e.args) > 0 /\ e.args[Len(e.args)] = <<>>

\* func (e *Event) String() string
EventString(e) ==
    LET pre == IF e.identity.host # <<>>
               THEN <<":">> \o IdentityString(e.identity) \o <<" ">>
               ELSE <<>>
        n == Len(e.args)
        trailing == e.args[n]
    IN  IF n = 0 THEN pre \o e.command
        ELSE pre \o e.command \o JoinSp(SubSeq(e.args, 1, n - 1))
                 \o (IF HasSpace(trailing) \/ Head(trailing) = ":"
                     THEN <<" ", ":">> ELSE <<" ">>)
                 \o trailing

(***************************************************************************)
(* Reader.ReadMessage on a stream of lines.  ParseMessage is modelled from *)
(* its description: the errors in the order they are checked, the message  *)
(* as ParseEvent builds it.                                                *)
(***************************************************************************)
ParseOk(m) == [msg |-> m, err |-> "nil"]

ParseFail(e) == [msg |-> NilEvent, err |-> e]

ParseMessage(line) ==
    LET l0 == TrimSpace(line)
        tagged == l0 # <<>> /\ Head(l0) = "@"
        tagSplit == SplitN(l0, <<" ">>)
        l1 == IF tagged /\ Len(tagSplit) = 2 THEN TrimLeft(tagSplit[2])
              ELSE l0
    IN  IF l0 = <<>> THEN ParseFail("ErrZeroLengthMessage")
        ELSE IF tagged /\ Len(tagSplit) < 2
        THEN ParseFail("ErrMissingDataAfterTags")
        ELSE IF Head(l1) = ":" /\ Len(SplitN(l1, <<" ">>)) < 2
        THEN ParseFail("ErrMissingDataAfterPrefix")
        ELSE IF ParseEvent(l1) = NilEvent THEN ParseFail("ErrMissingCommand")
        ELSE ParseOk(ParseEvent(l1))

\* the lines a server writes, without their CRLF
ReadLines ==
    { <<>>,
      <<"0", "0", "1", " ", "n">>,
      <<":", "x">>,
      <<"P", "I", "N", "G", " ", ":", "a", " ", "b">>,
      <<"@", "t">> }

\* the server writes the line l and its CRLF to the stream
ServerWrite(l) ==
    /\ Len(rlines) < MaxReadLines
    /\ rlines' = Append(rlines, l)
    /\ rbuf' = rbuf \o l \o CRLF
    /\ UNCHANGED <<rret, evPc, evIn, evStr, evOut, idPc, idIn, idOut>>
    /\ UNCHANGED <<runVars, limVars, wireVars, capVars, loopVars, lateVars>>

\* ReadMessage: line, err := r.reader.ReadString('\n'), which blocks while
\* the stream holds no '\n'; return ParseMessage(line)
ReadMessage ==
    LET i == Index(rbuf, <<"\n">>)
    IN  /\ i > 0
        /\ rbuf' = SubSeq(rbuf, i + 1, Len(rbuf))
        /\ rret' = Append(rret, ParseMessage(SubSeq(rbuf, 1, i)))
        /\ UNCHANGED <<rlines, evPc, evIn, evStr, evOut, idPc, idIn, idOut>>
        /\ UNCHANGED <<runVars, limVars, wireVars, capVars, loopVars, lateVars>>

\* the client was made and Run is not called
ClientAtRest ==
    /\ RunInit
    /\ ~cfg.limitOn /\ ~cfg.pingOn /\ cfg.pass = <<>> /\ cfg.handler
    /\ nLimTicks = 0
    /\ pcU = "off"
    /\ uWrites = 0
    /\ WireIdle
    /\ CapIdle
    /\ history = <<>>

ReaderInit == ClientAtRest /\ ParseIdle /\ LateIdle

ReaderNext == (\E l \in ReadLines : ServerWrite(l)) \/ ReadMessage

ReaderSpec == ReaderInit /\ [][ReaderNext]_vars

\* the line is empty for the parser
Blank(l) == TrimSpace(l) = <<>>

\* C28: the calls of ReadMessage return, in order, the parse results of the
\* lines written that are not empty: no call returns for an empty line, and
\* the error of any other line that does not parse is returned by one call,
\* the next call continuing with the line after it.
C28_SkipsEmptyLines ==
    LET full == SelectSeq(rlines, LAMBDA l : ~Blank(l))
    IN  /\ Len(rret) <= Len(full)
        /\ \A i \in 1..Len(rret) : rret[i] = ParseMessage(full[i])

\* the errors of the lines that are not empty are returned and the next call
\* continues with the following line
C28_OtherErrorsSurface ==
    \A i \in 1..Len(rret) :
        ~(\E j \in 1..i : Blank(rlines[j])) => rret[i] = ParseMessage(rlines[i])

\* an error was returned for ":x" and the next call returned the message of
\* the line after it
C28_Witness ==
    /\ Len(rret) = 2
    /\ rret[1] = ParseFail("ErrMissingDataAfterPrefix")
    /\ rret[2] = ParseOk(Event(Identity(<<>>, <<>>, <<>>),
                               <<"0", "0", "1">>, << <<"n">> >>))

(***************************************************************************)
(* The round trip of an event through String and ParseEvent.               *)
(***************************************************************************)
\* the identities of the events explored: none, a host, user@host,
\* nick!user@host, nick!@host, and a nick alone
EvIdentities ==
    { Identity(<<>>, <<>>, <<>>),
      Identity(<<>>, <<>>, <<"h">>),
      Identity(<<>>, <<"u">>, <<"h">>),
      Identity(<<"k">>, <<"u">>, <<"h">>),
      Identity(<<"k">>, <<>>, <<"h">>),
      Identity(<<"k">>, <<>>, <<>>) }

\* the last arguments explored: plain, with a space, starting with ':',
\* empty, ending with a space, starting with a space
EvLasts ==
    { <<"a">>, <<"a", " ", "b">>, <<":", "a">>, <<>>, <<"a", " ">>,
      <<" ", "a">> }

\* argument lists of which only the last has a space, starts with ':' or is
\* empty
EvArgs ==
    {<<>>} \cup
    { [i \in 1..n |-> IF i = n THEN l ELSE <<"a">>] :
        n \in 1..MaxArgs, l \in EvLasts }

\* the valid events explored
ValidEvents ==
    { Event(id, <<"C">>, args) : id \in EvIdentities, args \in EvArgs }

\* s := e.String()
Serialize ==
    /\ evPc = "made"
    /\ IF EventStringPanics(evIn)
       THEN evPc' = "panicked" /\ UNCHANGED evStr
       ELSE evPc' = "serialized" /\ evStr' = EventString(evIn)
    /\ UNCHANGED <<rlines, rbuf, rret, evIn, evOut, idPc, idIn, idOut>>
    /\ UNCHANGED <<runVars, limVars, wireVars, capVars, loopVars, lateVars>>

\* ParseEvent(s)
Reparse ==
    /\ evPc = "serialized"
    /\ evOut' = ParseEvent(evStr)
    /\ evPc' = "parsed"
    /\ UNCHANGED <<rlines, rbuf, rret, evIn, evStr, idPc, idIn, idOut>>
    /\ UNCHANGED <<runVars, limVars, wireVars, capVars, loopVars, lateVars>>

RoundTripInit ==
    /\ ClientAtRest
    /\ LateIdle
    /\ rlines = <<>> /\ rbuf = <<>> /\ rret = <<>>
    /\ evPc = "made"
    /\ evIn \in ValidEvents
    /\ evStr = <<>>
    /\ evOut = NilEvent
    /\ idPc = "off" /\ idIn = <<>> /\ idOut = Identity(<<>>, <<>>, <<>>)

RoundTripNext == Serialize \/ Reparse

RoundTripSpec == RoundTripInit /\ [][RoundTripNext]_vars

\* C29: serializing a valid event does not fail, and parsing the
\* serialization gives the event back.
C29_RoundTrip ==
    /\ evPc # "panicked"
    /\ evPc = "parsed" => evOut = evIn

\* the events whose identity has a host or is empty and whose last argument is
\* not empty and does not end with white space
Plain(e) ==
    /\ e.identity.host = <<>> => e.identity = Identity(<<>>, <<>>, <<>>)
    /\ Len(e.args) > 0 =>
          LET l == e.args[Len(e.args)] IN l # <<>> /\ TrimRight(l) = l

\* the round trip of these events gives them back
C29_RoundTripPlain ==
    Plain(evIn) => /\ evPc # "panicked"
                   /\ evPc = "parsed" => evOut = evIn

\* an event with identity and a last argument with a space came back
C29_Witness ==
    /\ evPc = "parsed"
    /\ evIn = Event(Identity(<<"k">>, <<"u">>, <<"h">>), <<"C">>,
                    << <<"a">>, <<"a", " ", "b">> >>)
    /\ evOut = evIn

(***************************************************************************)
(* ParseIdentity on the strings of up to MaxIdLen bytes.                   *)
(***************************************************************************)
IdBytes == {"a", "b", "@", "!"}

IdInputs == UNION { [1..n -> IdBytes] : n \in 0..MaxIdLen }

\* id := ParseIdentity(line)
ParsePrefix ==
    /\ idPc = "given"
    /\ idOut' = ParseIdentity(idIn)
    /\ idPc' = "parsed"
    /\ UNCHANGED <<rlines, rbuf, rret, evPc, evIn, evStr, evOut, idIn>>
    /\ UNCHANGED <<runVars, limVars, wireVars, capVars, loopVars, lateVars>>

IdentityInit ==
    /\ ClientAtRest
    /\ LateIdle
    /\ rlines = <<>> /\ rbuf = <<>> /\ rret = <<>>
    /\ evPc = "off" /\ evIn = NilEvent /\ evStr = <<>> /\ evOut = NilEvent
    /\ idPc = "given"
    /\ idIn \in IdInputs
    /\ idOut = Identity(<<>>, <<>>, <<>>)

IdentityNext == ParsePrefix

IdentitySpec == IdentityInit /\ [][IdentityNext]_vars

\* the string has the byte c
HasByte(s, c) == \E i \in 1..Len(s) : s[i] = c

\* C30: for an input with neither '@' nor '!' the parsed identity has the
\* whole input as its name (Nick) and an empty user and host.
C30_BareInputIsName ==
    (idPc = "parsed" /\ ~HasByte(idIn, "@") /\ ~HasByte(idIn, "!"))
        => idOut = Identity(idIn, <<>>, <<>>)

\* what the split on the first '@' and then on the first '!' of its left side
\* gives: name, user, host
PrefixOf(s) ==
    LET uh == SplitN(s, <<"@">>)
        nu == SplitN(uh[1], <<"!">>)
    IN  Identity(nu[1],
                 IF Len(nu) = 2 THEN nu[2] ELSE <<>>,
                 IF Len(uh) = 2 THEN uh[2] ELSE <<>>)

\* with both separators, '!' before the first '@', the three parts are as
\* described
C30_FullInputSplits ==
    (/\ idPc = "parsed"
     /\ HasByte(idIn, "@")
     /\ HasByte(SplitN(idIn, <<"@">>)[1], "!")) => idOut = PrefixOf(idIn)

C30_Witness ==
    /\ idPc = "parsed"
    /\ idIn = <<"a", "!", "@">>
    /\ idOut = Identity(<<"a">>, <<>>, <<>>)

(***************************************************************************)
(* The membership tracker.  t.channels is the set of its ChannelStates,    *)
(* no two with the same Name; Users is a set of nicks.                     *)
(***************************************************************************)
cJOIN == <<"J", "O", "I", "N">>
cPART == <<"P", "A", "R", "T">>
cKICK == <<"K", "I", "C", "K">>
cQUIT == <<"Q", "U", "I", "T">>
cTOPIC == <<"T", "O", "P", "I", "C">>
c332 == <<"3", "3", "2">>
c353 == <<"3", "5", "3">>
c005 == <<"0", "0", "5">>

\* type ChannelState struct { Name, Topic string; Users map[string]struct{} }
ChannelState(name, topic, users) ==
    [name |-> name, topic |-> topic, users |-> users]

\* _, ok := t.channels[channel]
Tracked(chs, ch) == \E st \in chs : st.name = ch

\* t.channels[channel]
ChannelOf(chs, ch) == CHOOSE st \in chs : st.name = ch

\* t.channels[st.Name] = st
Put(chs, st) == {o \in chs : o.name # st.name} \cup {st}

\* delete(t.channels, channel)
Drop(chs, ch) == {o \in chs : o.name # ch}

\* what a handler of the tracker returns and leaves behind
TOk(chs, nick) == [err |-> "nil", channels |-> chs, nick |-> nick]

TFail(e, chs, nick) == [err |-> e, channels |-> chs, nick |-> nick]

handle001(m, chs, nick) ==
    IF Len(m.params) # 2 THEN TFail("malformed RPL_WELCOME message", chs, nick)
    ELSE TOk(chs, m.params[1])

\* a handleTopic that records the topic of an unknown channel before it
\* returns its error
HandleTopicCreates(m, chs, nick) ==
    IF Len(m.params) # 2 THEN TFail("malformed TOPIC message", chs, nick)
    ELSE IF ~Tracked(chs, m.params[1])
    THEN TFail("received TOPIC message for unknown channel",
               Put(chs, ChannelState(m.params[1], Trailing(m), {})), nick)
    ELSE TOk(Put(chs, [ChannelOf(chs, m.params[1])
                          EXCEPT !.topic = Trailing(m)]), nick)

handleTopic(m, chs, nick) ==
    IF Len(m.params) # 2 THEN TFail("malformed TOPIC message", chs, nick)
    ELSE IF ~Tracked(chs, m.params[1])
    THEN TFail("received TOPIC message for unknown channel", chs, nick)
    ELSE TOk(Put(chs, [ChannelOf(chs, m.params[1])
                          EXCEPT !.topic = Trailing(m)]), nick)

handleRplTopic(m, chs, nick) ==
    IF Len(m.params) # 3 THEN TFail("malformed RPL_TOPIC message", chs, nick)
    ELSE IF ~Tracked(chs, m.params[2])
    THEN TFail("received RPL_TOPIC for unknown channel", chs, nick)
    ELSE TOk(Put(chs, [ChannelOf(chs, m.params[2])
                          EXCEPT !.topic = Trailing(m)]), nick)

\* a handleJoin that creates the state for any user
HandleJoinAnyone(m, chs, nick) ==
    IF Len(m.params) # 1 THEN TFail("malformed JOIN message", chs, nick)
    ELSE LET user == m.prefix
             channel == Trailing(m)
             state == IF Tracked(chs, channel) THEN ChannelOf(chs, channel)
                      ELSE ChannelState(channel, <<>>, {})
         IN  TOk(Put(chs, [state EXCEPT !.users = @ \cup {user}]), nick)

handleJoin(m, chs, nick) ==
    IF Len(m.params) # 1 THEN TFail("malformed JOIN message", chs, nick)
    ELSE LET user == m.prefix
             channel == Trailing(m)
             state == IF Tracked(chs, channel) THEN ChannelOf(chs, channel)
                      ELSE ChannelState(channel, <<>>, {})
         IN  IF ~Tracked(chs, channel) /\ user # nick
             THEN TFail("received JOIN message for unknown channel", chs, nick)
             ELSE TOk(Put(chs, [state EXCEPT !.users = @ \cup {user}]), nick)

\* a removal that keeps the channel of which the tracker itself was removed
LeaveKeepsChannel(chs, nick, channel, user) ==
    Put(chs, [ChannelOf(chs, channel) EXCEPT !.users = @ \ {user}])

\* if user == t.currentNick { delete(t.channels, channel) } else
\* { delete(state.Users, user) }
Leave(chs, nick, channel, user) ==
    IF user = nick THEN Drop(chs, channel)
    ELSE Put(chs, [ChannelOf(chs, channel) EXCEPT !.users = @ \ {user}])

handlePart(m, chs, nick) ==
    IF Len(m.params) < 1 THEN TFail("malformed PART message", chs, nick)
    ELSE IF ~Tracked(chs, m.params[1])
    THEN TFail("received PART message for unknown channel", chs, nick)
    ELSE TOk(Leave(chs, nick, m.params[1], m.prefix), nick)

handleKick(m, chs, nick) ==
    IF Len(m.params) # 3 THEN TFail("malformed KICK message", chs, nick)
    ELSE IF ~Tracked(chs, m.params[1])
    THEN TFail("received KICK message for unknown channel", chs, nick)
    ELSE TOk(Leave(chs, nick, m.params[1], m.params[2]), nick)

handleQuit(m, chs, nick) ==
    IF Len(m.params) # 1 THEN TFail("malformed QUIT message", chs, nick)
    ELSE TOk({[st EXCEPT !.users = @ \ {m.prefix}] : st \in chs}, nick)

\* a handleNick that renames in the channels only
HandleNickChannelsOnly(m, chs, nick) ==
    IF Len(m.params) # 1 THEN TFail("malformed NICK message", chs, nick)
    ELSE LET oldUser == m.prefix
             newUser == m.params[1]
         IN  TOk({ IF oldUser \in st.users
                   THEN [st EXCEPT !.users = (@ \ {oldUser}) \cup {newUser}]
                   ELSE st : st \in chs }, nick)

handleNick(m, chs, nick) ==
    IF Len(m.params) # 1 THEN TFail("malformed NICK message", chs, nick)
    ELSE LET oldUser == m.prefix
             newUser == m.params[1]
         IN  TOk({ IF oldUser \in st.users
                   THEN [st EXCEPT !.users = (@ \ {oldUser}) \cup {newUser}]
                   ELSE st : st \in chs },
                 IF nick = oldUser THEN newUser ELSE nick)

RECURSIVE Split(_)
\* strings.Split(s, " ")
Split(s) ==
    LET i == Index(s, <<" ">>)
    IN  IF i = 0 THEN <<s>>
        ELSE <<SubSeq(s, 1, i - 1)>> \o Split(SubSeq(s, i + 1, Len(s)))

\* i := strings.IndexFunc(user, not a prefix symbol); if i != -1
\* { user = user[i:] }
StripPrefixes(user, symbols) ==
    LET at == {i \in 1..Len(user) : user[i] \notin symbols}
    IN  IF at = {} THEN user
        ELSE SubSeq(user, CHOOSE i \in at : \A j \in at : i <= j, Len(user))

\* get_prefix_map of the ISUPPORT tracker: PREFIX is "(modes)symbols" with
\* as many symbols as modes, and absent otherwise
GetPrefixMap(v) ==
    LET close == Index(v, <<")">>)
        ok == /\ v # <<>>
              /\ Head(v) = "("
              /\ close > 0
              /\ close - 2 = Len(v) - close
    IN  [ok |-> ok,
         symbols |-> IF ok THEN {v[i] : i \in (close + 1)..Len(v)} ELSE {}]

handleRplNamReply(m, chs, nick, prefix) ==
    IF Len(m.params) # 4 THEN TFail("malformed RPL_NAMREPLY message", chs, nick)
    ELSE LET channel == m.params[3]
             users == Split(TrimSpace(Trailing(m)))
             prefixes == GetPrefixMap(prefix)
             named == {StripPrefixes(users[i], prefixes.symbols) :
                          i \in 1..Len(users)}
         IN  IF ~prefixes.ok THEN TFail("ISupport missing prefix map", chs, nick)
             ELSE IF ~Tracked(chs, channel)
             THEN TFail("received RPL_NAMREPLY message for untracked channel",
                        chs, nick)
             ELSE TOk(Put(chs, [ChannelOf(chs, channel)
                                   EXCEPT !.users = @ \cup (named \ {nick})]),
                      nick)

\* func (t *Tracker) Handle(msg *Message) error
TrackerResult(m, chs, nick, prefix) ==
    CASE m.command = c001 -> handle001(m, chs, nick)
      [] m.command = c332 -> handleRplTopic(m, chs, nick)
      [] m.command = c353 -> handleRplNamReply(m, chs, nick, prefix)
      [] m.command = cJOIN -> handleJoin(m, chs, nick)
      [] m.command = cTOPIC -> handleTopic(m, chs, nick)
      [] m.command = cPART -> handlePart(m, chs, nick)
      [] m.command = cKICK -> handleKick(m, chs, nick)
      [] m.command = cQUIT -> handleQuit(m, chs, nick)
      [] m.command = cNICK -> handleNick(m, chs, nick)
      [] OTHER -> TOk(chs, nick)

(***************************************************************************)
(* The dispatch of an incoming message: the client's filters, the ISUPPORT *)
(* tracker, the membership tracker, the user handler.  The order of the    *)
(* calls and the ISUPPORT tracker are modelled from their description.     *)
(***************************************************************************)
\* the PREFIX the ISUPPORT tracker starts with: (ov)@+
DefaultPrefix == <<"(", "o", "v", ")", "@", "+">>

PrefixKey == <<"P", "R", "E", "F", "I", "X">>

RECURSIVE PrefixAfter(_, _)
\* the value of PREFIX after the tokens KEY or KEY=value of a 005
PrefixAfter(toks, old) ==
    IF toks = <<>> THEN old
    ELSE LET kv == SplitN(Head(toks), <<"=">>)
         IN  PrefixAfter(Tail(toks),
                         IF kv[1] # PrefixKey THEN old
                         ELSE IF Len(kv) = 2 THEN kv[2] ELSE <<>>)

\* the channels, nicks and texts of the messages explored
ChA == <<"#">>
ChB == <<"&">>
Who == <<"w">>
Txt == <<"t">>

\* the messages a server sends in the tracker study
TrackMsgs ==
    { Msg(<<>>, c001, <<CfgNick, Txt>>),
      Msg(<<>>, c001, <<OtherNick, Txt>>),
      Msg(<<>>, c001, <<OtherNick>>),
      Msg(<<>>, c433, <<>>),
      Msg(CfgNick, cJOIN, <<ChA>>),
      Msg(OtherNick, cJOIN, <<ChA>>),
      Msg(CfgNick, cJOIN, <<ChB>>),
      Msg(CfgNick, cJOIN, <<ChA, Txt>>),
      Msg(CfgNick, cPART, <<ChA>>),
      Msg(OtherNick, cPART, <<ChA>>),
      Msg(CfgNick, cPART, <<>>),
      Msg(Who, cKICK, <<ChA, CfgNick, Txt>>),
      Msg(Who, cKICK, <<ChA, OtherNick, Txt>>),
      Msg(Who, cKICK, <<ChA, CfgNick>>),
      Msg(CfgNick, cQUIT, <<Txt>>),
      Msg(OtherNick, cQUIT, <<Txt>>),
      Msg(OtherNick, cQUIT, <<>>),
      Msg(CfgNick, cNICK, <<OtherNick>>),
      Msg(OtherNick, cNICK, <<Who>>),
      Msg(CfgNick, cNICK, <<>>),
      Msg(<<>>, c353, <<CfgNick, <<"=">>, ChA, <<"@", "m", " ", "n">> >>),
      Msg(<<>>, c353, <<CfgNick, <<"=">>, ChB, <<"w">> >>),
      Msg(<<>>, c353, <<CfgNick, <<"=">>, ChA>>),
      Msg(<<>>, c332, <<CfgNick, ChA, Txt>>),
      Msg(<<>>, c332, <<CfgNick, ChA>>),
      Msg(OtherNick, cTOPIC, <<ChA, Txt>>),
      Msg(OtherNick, cTOPIC, <<ChB>>),
      Msg(<<>>, c005, <<CfgNick, PrefixKey \o <<"=", "(", "o", ")">>, Txt>>),
      Msg(Who, cNOTICE, <<Txt>>) }

\* m, err = c.ReadMessage()
TrackRead(m) ==
    /\ tPc = "read"
    /\ tCount < MaxTrackMsgs
    /\ tCur' = m
    /\ tCount' = tCount + 1
    /\ tAfter001' = IF tAfter001 # "no" THEN "later"
                    ELSE IF m.command = c001 THEN "first" ELSE "no"
    /\ tPc' = "filter"
    /\ UNCHANGED <<fNick, isPrefix, tChannels, tNick, tErr>>
    /\ UNCHANGED <<runVars, limVars, wireVars, capVars, loopVars, parseVars,
                   variantVars>>

\* if f, ok := clientFilters[m.Command]; ok { f(c, m) }
TrackFilter ==
    /\ tPc = "filter"
    /\ ~FilterPanics(tCur)
    /\ fNick' = CASE tCur.command = c001 -> Filter001Nick(tCur)
                  [] tCur.command \in {c433, c437} -> FilterCollisionNick(fNick)
                  [] tCur.command = cNICK -> FilterNick(fNick, tCur)
                  [] OTHER -> fNick
    /\ tCur' = IF tCur.command = cPRIVMSG THEN FilterPrivmsg(tCur) ELSE tCur
    /\ tPc' = "isupport"
    /\ UNCHANGED <<tCount, tAfter001, isPrefix, tChannels, tNick, tErr>>
    /\ UNCHANGED <<runVars, limVars, wireVars, capVars, loopVars, parseVars,
                   variantVars>>

\* the ISUPPORT tracker's handle: a 005 with at least 2 parameters stores its
\* middle parameters; anything else is ignored
ISupportHandle ==
    /\ tPc = "isupport"
    /\ isPrefix' = IF tCur.command = c005 /\ Len(tCur.params) >= 2
                   THEN PrefixAfter(SubSeq(tCur.params, 2,
                                           Len(tCur.params) - 1), isPrefix)
                   ELSE isPrefix
    /\ tPc' = "tracker"
    /\ UNCHANGED <<tCur, tCount, tAfter001, fNick, tChannels, tNick, tErr>>
    /\ UNCHANGED <<runVars, limVars, wireVars, capVars, loopVars, parseVars,
                   variantVars>>

\* err := t.Handle(m), the error dropped by the client
TrackerHandle ==
    /\ tPc = "tracker"
    /\ LET r == TrackerResult(tCur, tChannels, tNick, isPrefix)
       IN  /\ tChannels' = r.channels
           /\ tNick' = r.nick
           /\ tErr' = r.err
    /\ tPc' = "handler"
    /\ UNCHANGED <<tCur, tCount, tAfter001, fNick, isPrefix>>
    /\ UNCHANGED <<runVars, limVars, wireVars, capVars, loopVars, parseVars,
                   variantVars>>

\* c.config.Handler.Handle(c, m); m ends with the iteration
UserHandle ==
    /\ tPc = "handler"
    /\ tPc' = "read"
    /\ tCur' = NoMsg
    /\ UNCHANGED <<tCount, tAfter001, fNick, isPrefix, tChannels, tNick, tErr>>
    /\ UNCHANGED <<runVars, limVars, wireVars, capVars, loopVars, parseVars,
                   variantVars>>

\* NewTracker and a client whose Run has set the configured nick
TrackInit ==
    /\ ClientAtRest
    /\ ParseIdle
    /\ VariantIdle
    /\ tPc = "read"
    /\ tCur = NoMsg
    /\ tCount = 0
    /\ tAfter001 = "no"
    /\ fNick = CfgNick
    /\ isPrefix = DefaultPrefix
    /\ tChannels = {}
    /\ tNick = <<>>
    /\ tErr = "nil"

TrackNext ==
    \/ \E m \in TrackMsgs : TrackRead(m)
    \/ TrackFilter
    \/ ISupportHandle
    \/ TrackerHandle
    \/ UserHandle

TrackSpec == TrackInit /\ [][TrackNext]_vars

\* the users of channel ch, none if it is not tracked
UsersOf(chs, ch) == IF Tracked(chs, ch) THEN ChannelOf(chs, ch).users ELSE {}

\* the tracker is about to handle a message with command c
Tracking(c) == tPc = "tracker" /\ tCur.command = c

ErrUnknownJoin == "received JOIN message for unknown channel"

\* C31: Handle of a JOIN of channel c by u: if c is untracked and u is not
\* the tracker's nick it returns the unknown-channel error and the channels
\* stay as they are; if c is untracked and u is the tracker's nick, c is
\* tracked afterwards; and when it returns no error, u is a user of c.
C31_JoinTracksOwnChannels ==
    [][(Tracking(cJOIN) /\ Len(tCur.params) = 1) =>
          LET c == tCur.params[1]
              u == tCur.prefix
          IN  /\ (~Tracked(tChannels, c) /\ u # tNick)
                    => tErr' = ErrUnknownJoin /\ tChannels' = tChannels
              /\ (~Tracked(tChannels, c) /\ u = tNick)
                    => Tracked(tChannels', c)
              /\ tErr' = "nil" => u \in UsersOf(tChannels', c)]_vars

\* the client joined #, then m joined it; m's JOIN of & was refused before
C31_Witness ==
    /\ tPc = "handler"
    /\ tCur = Msg(OtherNick, cJOIN, <<ChA>>)
    /\ tErr = "nil"
    /\ tNick = CfgNick
    /\ UsersOf(tChannels, ChA) = {CfgNick, OtherNick}
    /\ ~Tracked(tChannels, ChB)

\* the channels after user left the tracked channel c: c is gone if it was
\* the tracker itself, and otherwise c has lost that user; the rest is as it
\* was
AfterLeaving(c, user) ==
    IF user = tNick THEN {st \in tChannels : st.name # c}
    ELSE { IF st.name = c THEN [st EXCEPT !.users = @ \ {user}] ELSE st :
             st \in tChannels }

\* Handle of a PART of a tracked channel removes the channel or the user
PartLeaves ==
    (/\ Tracking(cPART)
     /\ Len(tCur.params) >= 1
     /\ Tracked(tChannels, tCur.params[1]))
        => /\ tChannels' = AfterLeaving(tCur.params[1], tCur.prefix)
           /\ tNick' = tNick

\* Handle of a KICK with at least k parameters of a tracked channel removes
\* the channel or the victim
KickLeaves(k) ==
    (/\ Tracking(cKICK)
     /\ Len(tCur.params) >= k
     /\ Tracked(tChannels, tCur.params[1]))
        => /\ tChannels' = AfterLeaving(tCur.params[1], tCur.params[2])
           /\ tNick' = tNick

\* C32: a PART of a tracked channel by the tracker's nick removes the
\* channel, by anyone else it removes that user from the channel only, and
\* nothing else changes; a KICK does the same for the victim named by its
\* second parameter.
C32_PartKickRemove == [][PartLeaves /\ KickLeaves(2)]_vars

\* the same for a KICK that carries a third parameter, the comment
C32_PartKickWithComment == [][PartLeaves /\ KickLeaves(3)]_vars

C32_Witness ==
    /\ tPc = "handler"
    /\ tCur = Msg(Who, cKICK, <<ChA, OtherNick, Txt>>)
    /\ tErr = "nil"
    /\ UsersOf(tChannels, ChA) = {CfgNick}
    /\ Tracked(tChannels, ChB)

\* C33: Handle of a NICK from old to new puts new in the place of old in
\* every channel that had old as a user, leaves the other channels as they
\* are, and changes the tracker's nick to new iff it was old.
C33_NickRenamesEverywhere ==
    [][(Tracking(cNICK) /\ Len(tCur.params) = 1) =>
          LET old == tCur.prefix
              new == tCur.params[1]
          IN  /\ tErr' = "nil"
              /\ {st.name : st \in tChannels'} = {st.name : st \in tChannels}
              /\ \A st \in tChannels :
                    LET after == ChannelOf(tChannels', st.name)
                    IN  /\ after.topic = st.topic
                        /\ after.users =
                             IF old \in st.users
                             THEN (st.users \ {old}) \cup {new}
                             ELSE st.users
              /\ tNick' = IF tNick = old THEN new ELSE tNick]_vars

\* m, in # with the client, was renamed to w; the tracker's nick stayed
C33_Witness ==
    /\ tPc = "handler"
    /\ tCur = Msg(OtherNick, cNICK, <<Who>>)
    /\ tNick = CfgNick
    /\ UsersOf(tChannels, ChA) = {CfgNick, Who}

\* the message is a PART or KICK of channel c that removes the tracker's nick
OwnLeave(m, c) ==
    \/ m.command = cPART /\ Len(m.params) >= 1 /\ m.params[1] = c
          /\ m.prefix = tNick
    \/ m.command = cKICK /\ Len(m.params) >= 2 /\ m.params[1] = c
          /\ m.params[2] = tNick

\* C34: when the user handler is called for a PART or KICK that removes the
\* client from a channel, the tracker has handled the message and the
\* channel is not tracked.
C34_HandlerSeesRemoval ==
    \A c \in {ChA, ChB} :
        (tPc = "handler" /\ OwnLeave(tCur, c)) => ~Tracked(tChannels, c)

\* the same for PART and for the KICK that carries a comment
C34_HandlerSeesRemovalWithComment ==
    \A c \in {ChA, ChB} :
        (tPc = "handler" /\ OwnLeave(tCur, c)
            /\ (tCur.command = cKICK => Len(tCur.params) = 3))
        => ~Tracked(tChannels, c)

\* the trackers run between the filters and the handler, in this order
C34_DispatchOrder ==
    [][/\ tPc = "filter" => tPc' = "isupport"
       /\ tPc = "isupport" => tPc' = "tracker"
       /\ tPc = "tracker" => tPc' = "handler"
       /\ tPc' = "handler" => tPc = "tracker"]_vars

\* the handler is called for the client's PART of #, which was tracked
C34_Witness ==
    /\ tPc = "handler"
    /\ tCur = Msg(CfgNick, cPART, <<ChA>>)
    /\ tNick = CfgNick
    /\ tErr = "nil"
    /\ ~Tracked(tChannels, ChA)

\* the step writes the line l
Writes(l) == Len(written') = Len(written) + 1 /\ written'[Len(written')] = l

\* the timestamp is in the queue of outstanding pings
Outstanding(t) == \E i \in 1..Len(sentPings) : sentPings[i] = t

\* C35: the ticker step that leads to the write of a PING line appends the
\* timestamp of that line to the queue of outstanding pings, and a PING line
\* is written only by the step after it; a timestamp leaves the queue only
\* as its head, in the filter step of a PONG that carries it; so the first
\* PONG that is read, if it is for a PING that was written, finds its
\* timestamp in the queue.
C35_QueuedBeforeWritten ==
    /\ [][/\ (pcT' = "write" /\ pcT # "write")
                => sentPings' = Append(sentPings, tickTs')
          /\ \A t \in 0..MaxPings :
                Writes(PingLine(t)) => (pcT = "write" /\ tickTs = t)]_vars
    /\ [][sentPings' # sentPings =>
            \/ \E t \in 0..MaxPings : sentPings' = Append(sentPings, t)
            \/ /\ Filtering(cPONG)
               /\ sentPings # <<>>
               /\ Trailing(cur) = Itoa(sentPings[1])
               /\ sentPings' = Tail(sentPings)]_vars
    /\ []((Filtering(cPONG) /\ cfg.pingOn /\ nRead = 1)
             => \A t \in 0..MaxPings :
                   (Trailing(cur) = Itoa(t)
                       /\ \E i \in 1..Len(written) : written[i] = PingLine(t))
                   => Outstanding(t))

\* the second PONG for the PING that was written finds the queue empty: the
\* first one removed the timestamp
C35_Witness ==
    /\ Filtering(cPONG)
    /\ cfg.pingOn
    /\ nRead = 2
    /\ Trailing(cur) = Itoa(0)
    /\ \E i \in 1..Len(written) : written[i] = PingLine(0)
    /\ sentPings = <<>>

\* C36: the filter of a message never ends the read loop with a runtime
\* fault, whatever the command, the parameters and the prefix.
C36_FilterNeverFaults == pcMain # "panicked"

\* the filter step of a 433, 437, NICK or PRIVMSG ends without a fault
C36_OtherFiltersSafe ==
    [][(pcMain = "filter" /\ pcMain' # pcMain
           /\ cur.command \in {c433, c437, cNICK, cPRIVMSG})
          => pcMain' = "handle"]_vars

\* the commands Tracker.Handle has a case for
TrackerCommands == {c001, c332, c353, cJOIN, cTOPIC, cPART, cKICK, cQUIT, cNICK}

\* C37: a call of Handle that returns an error leaves the channels, their
\* topics and users and the tracker's nick as they were, and a call for any
\* other command than the nine it handles returns no error and changes
\* nothing.
C37_ErrorLeavesState ==
    [][tPc = "tracker" =>
          /\ tErr' # "nil" => tChannels' = tChannels /\ tNick' = tNick
          /\ tCur.command \notin TrackerCommands
                => tErr' = "nil" /\ tChannels' = tChannels /\ tNick' = tNick]_vars

\* a 353 for the tracked channel # was refused for lack of a prefix map, and
\* # has its one user still
C37_Witness ==
    /\ tPc = "handler"
    /\ tCur.command = c353
    /\ tErr = "ISupport missing prefix map"
    /\ tNick = CfgNick
    /\ tChannels = {ChannelState(ChA, <<>>, {CfgNick})}

\* the tracker's nick is a user of every tracked channel
SelfInAll == \A st \in tChannels : tNick \in st.users

\* C38: after any sequence of handled messages the tracker's nick is a user
\* of every tracked channel.
C38_SelfInEveryChannel == SelfInAll

\* C38, amended: every call of Handle other than for a 001 and for a QUIT of
\* the tracker's nick keeps the tracker's nick a user of every tracked
\* channel.
C38_SelfKeptAmended ==
    [][(/\ tPc = "tracker"
        /\ SelfInAll
        /\ tCur.command # c001
        /\ ~(tCur.command = cQUIT /\ tCur.prefix = tNick)) => SelfInAll']_vars

\* the client was renamed in the channel it had joined
C38_Witness ==
    /\ tPc = "handler"
    /\ tCur = Msg(CfgNick, cNICK, <<OtherNick>>)
    /\ tNick = OtherNick
    /\ tChannels = {ChannelState(ChA, <<>>, {OtherNick})}

\* C39: once a message after the first 001 of the stream has gone through
\* the filters and the tracker, the tracker's nick is the client's nick.
C39_NicksAgree ==
    (tPc \in {"handler", "read"} /\ tAfter001 = "later") => tNick = fNick

\* the two agree right after a 001 with two parameters
C39_AgreeAfterWelcome ==
    (tPc = "handler" /\ tCur.command = c001 /\ Len(tCur.params) = 2)
        => tNick = fNick

(***************************************************************************)
(* Run with a single ping goroutine: for { select { case <-t.C: Writef;    *)
(* case <-exiting: break } }.                                              *)
(***************************************************************************)
\* exiting := make(chan struct{}); if PingFrequency > 0 { wg.Add(1); go ... };
\* c.currentNick = c.config.Nick
VStart ==
    /\ vPc = "start"
    /\ vWg' = IF vPing THEN vWg + 1 ELSE vWg
    /\ vG' = IF vPing THEN "select" ELSE vG
    /\ vPc' = "register"
    /\ UNCHANGED <<vPing, vExiting, vErr, vTicks, vReads>>
    /\ UNCHANGED <<runVars, limVars, wireVars, capVars, loopVars, parseVars,
                   trackVars>>

\* c.Writef of PASS, NICK and USER; what Writef returns is not looked at
VRegister ==
    /\ vPc = "register"
    /\ vPc' = "read"
    /\ UNCHANGED <<vPing, vG, vExiting, vWg, vErr, vTicks, vReads>>
    /\ UNCHANGED <<runVars, limVars, wireVars, capVars, loopVars, parseVars,
                   trackVars>>

\* m, err = c.ReadMessage() with err == nil
VRead ==
    /\ vPc = "read"
    /\ vReads < MaxVReads
    /\ vReads' = vReads + 1
    /\ vPc' = "dispatch"
    /\ UNCHANGED <<vPing, vG, vExiting, vWg, vErr, vTicks>>
    /\ UNCHANGED <<runVars, limVars, wireVars, capVars, loopVars, parseVars,
                   trackVars>>

\* the filter and the handler of m
VDispatch ==
    /\ vPc = "dispatch"
    /\ vPc' = "read"
    /\ UNCHANGED <<vPing, vG, vExiting, vWg, vErr, vTicks, vReads>>
    /\ UNCHANGED <<runVars, limVars, wireVars, capVars, loopVars, parseVars,
                   trackVars>>

\* m, err = c.ReadMessage() with err != nil: break
VReadErr ==
    /\ vPc = "read"
    /\ vErr' = "EOF"
    /\ vPc' = "close"
    /\ UNCHANGED <<vPing, vG, vExiting, vWg, vTicks, vReads>>
    /\ UNCHANGED <<runVars, limVars, wireVars, capVars, loopVars, parseVars,
                   trackVars>>

\* close(exiting)
VClose ==
    /\ vPc = "close"
    /\ vExiting' = TRUE
    /\ vPc' = "wait"
    /\ UNCHANGED <<vPing, vG, vWg, vErr, vTicks, vReads>>
    /\ UNCHANGED <<runVars, limVars, wireVars, capVars, loopVars, parseVars,
                   trackVars>>

\* wg.Wait(); return err
VWait ==
    /\ vPc = "wait"
    /\ vWg = 0
    /\ vPc' = "returned"
    /\ UNCHANGED <<vPing, vG, vExiting, vWg, vErr, vTicks, vReads>>
    /\ UNCHANGED <<runVars, limVars, wireVars, capVars, loopVars, parseVars,
                   trackVars>>

\* case <-t.C:
VTick ==
    /\ vG = "select"
    /\ vTicks < MaxVTicks
    /\ vTicks' = vTicks + 1
    /\ vG' = "write"
    /\ UNCHANGED <<vPing, vPc, vExiting, vWg, vErr, vReads>>
    /\ UNCHANGED <<runVars, limVars, wireVars, capVars, loopVars, parseVars,
                   trackVars>>

\* c.Writef("PING :%d", time.Now().Unix()); the for loop goes on
VPingWrite ==
    /\ vG = "write"
    /\ vG' = "select"
    /\ UNCHANGED <<vPing, vPc, vExiting, vWg, vErr, vTicks, vReads>>
    /\ UNCHANGED <<runVars, limVars, wireVars, capVars, loopVars, parseVars,
                   trackVars>>

\* case <-exiting: the receive from the closed channel
VExitingCase ==
    /\ vG = "select"
    /\ vExiting
    /\ vG' = "break"
    /\ UNCHANGED <<vPing, vPc, vExiting, vWg, vErr, vTicks, vReads>>
    /\ UNCHANGED <<runVars, limVars, wireVars, capVars, loopVars, parseVars,
                   trackVars>>

\* break: it ends the select statement, and the for loop takes its next turn
VBreak ==
    /\ vG = "break"
    /\ vG' = "select"
    /\ UNCHANGED <<vPing, vPc, vExiting, vWg, vErr, vTicks, vReads>>
    /\ UNCHANGED <<runVars, limVars, wireVars, capVars, loopVars, parseVars,
                   trackVars>>

\* NewClient with or without a PingFrequency
VariantInit ==
    /\ ClientAtRest
    /\ ParseIdle
    /\ TrackIdle
    /\ vPing \in BOOLEAN
    /\ vPc = "start"
    /\ vG = "off"
    /\ vExiting = FALSE
    /\ vWg = 0
    /\ vErr = "nil"
    /\ vTicks = 0
    /\ vReads = 0

VMainStep ==
    VStart \/ VRegister \/ VRead \/ VDispatch \/ VReadErr \/ VClose \/ VWait

VPingStep == VTick \/ VPingWrite \/ VExitingCase \/ VBreak

VariantNext == VMainStep \/ VPingStep

\* both goroutines are scheduled again and again; a read returns in the end
VariantSpec ==
    /\ VariantInit
    /\ [][VariantNext]_vars
    /\ WF_vars(VMainStep)
    /\ WF_vars(VPingStep)

\* C40: with a ping goroutine, once the read loop has failed Run closes
\* exiting, the goroutine returns, wg.Wait() completes and Run returns the
\* read error.
C40_RunReturnsAfterReadError ==
    (vPing /\ vErr # "nil") ~> (vPc = "returned" /\ vErr = "EOF")

\* without a ping goroutine Run returns the read error
C40_RunReturnsWithoutPing ==
    (~vPing /\ vErr # "nil") ~> (vPc = "returned" /\ vErr = "EOF")

\* with a ping goroutine Run is never left
C40_NeverReturnsWithPing == vPing => vPc # "returned"

====
